---- MODULE Spec2Model ----
(***************************************************************************)
(* Model of the dotbins binary synchronisation engine                       *)
(* (src/lib/downloader.py: BinaryDownloader) and of the binary verifiers    *)
(* (src/lib/security.py, src/lib/manager.py), and of the tool manager's     *)
(* pin store, backups and uninstall (src/lib/manager.py: ToolManager).      *)
(*                                                                          *)
(* A file is a record [ex, body, len]: whether it exists, whose bytes it    *)
(* holds and how many chunks of them are on disk.  A body of ChunkCount     *)
(* chunks is complete; fewer chunks are a partially written or truncated    *)
(* body.  An installed binary also carries tot, the number of chunks of the *)
(* source it is copied from, and its executable bit x.                      *)
(***************************************************************************)
EXTENDS Integers, FiniteSets, Sequences, TLC

\* ------------------------------------------------------------------ bounds
NumKeys == 2
ChunkCount == 2
\* the number of invocations and environment changes in one behaviour
MaxOps == 3
\* the number of tool manager operations in one behaviour
MaxMgrOps == 3
\* the seconds of wall-clock time a behaviour spans, less one
MaxClock == 1
\* the number of sync invocations in one behaviour of the tool manager
MaxMgrSyncs == 1

Keys == 1..NumKeys
\* a (tool, platform, arch) triple that has no manifest entry
MissingKey == 0
\* the artifacts a release URL can serve
Artifacts == {"A", "B"}

\* a server that accepts the connection and then sends nothing
Stalled == "stall"

\* ------------------------------------------------------------------ files
NoFile == [ex |-> FALSE, body |-> "-", len |-> 0]
NoBin == [ex |-> FALSE, body |-> "-", len |-> 0, tot |-> 0, x |-> FALSE]
NoDigest == [of |-> "-", n |-> 0]
NoRec == [ex |-> FALSE, sha |-> NoDigest]

\* the sha256 of a complete artifact, as a manifest declares it
ShaOf(a) == [of |-> a, n |-> ChunkCount]
Digests == {NoDigest} \cup {ShaOf(a) : a \in Artifacts}

\* calculate_sha256: the hash of the bytes on disk; two files have the same
\* hash exactly when they hold the same chunks of the same body
calculate_sha256(f) == [of |-> f.body, n |-> f.len]

\* the archive type behind a key's URL (and so its cache file's extension)
KindOf(k) == CASE k = 1 -> "tar" [] k = 2 -> "raw" [] OTHER -> "zip"

\* _path_matches over the archive listing: artifact A holds a member that
\* matches path_in_archive, artifact B holds none
HasMember(a) == a = "A"
\* the bytes of the matching member of an archive
MemberOf(a) == "m" \o a

VARIABLES manifest, remote, state, cache, bin, tmp, leaked, pc, call, last, sa, ops,
          verif, url, pins, backups, clock, mops, snap, mlast, pinhist,
          names, arc, lfs, conc, imp, paths, disp

vars == <<manifest, remote, state, cache, bin, tmp, leaked, pc, call, last, sa, ops,
          verif, url, pins, backups, clock, mops, snap, mlast, pinhist,
          names, arc, lfs, conc, imp, paths, disp>>

\* what the tool manager and the cache cleanup own or read, beside the State
\* Store: the manifest's URLs, the Pin Store, the backup files, the clock, and
\* the record of the operations made so far
mvars == <<url, pins, backups, clock, mops, snap, mlast, pinhist>>

\* the arguments and results of the functions that are studied on their own
fvars == <<names, arc, lfs, conc, imp, paths, disp>>

NoCall ==
  [key |-> MissingKey, force |-> FALSE, sha |-> NoDigest,
   lstate |-> [k \in Keys |-> NoRec], net |-> 0, fresh |-> FALSE,
   extracted |-> FALSE, wrote |-> FALSE, outcome |-> "-",
   preCache |-> NoFile, preBin |-> NoBin]

NoLast == [key |-> MissingKey, ok |-> FALSE, net |-> 0]

NoRun == [phase |-> "idle", idx |-> 0, force |-> FALSE,
          results |-> [k \in Keys |-> "-"], tried |-> {}, fault |-> FALSE]

\* ------------------------------------------------------------- verifier
\* verify_binary reads f.read(1024) and looks for the pointer signature
HeaderLen == 1024
\* len(b'version https://git-lfs.github.com/spec/v1')
MarkerLen == 42

\* the file a verifier is given: whether it exists, its executable bit,
\* whether and where it holds the signature, whether the kernel can execute
\* it ("elf", "script": a #! line; "text": neither, as a pointer file), and
\* whose bytes it holds; an executable format has its magic bytes at offset 0,
\* so only a text file can start with the signature
ProbedFiles ==
  {f \in [ex : BOOLEAN, x : BOOLEAN, marker : BOOLEAN,
           at : {0, MarkerLen, HeaderLen - MarkerLen + 1, HeaderLen},
           fmt : {"elf", "script", "text"}, body : Artifacts] :
     (f.marker /\ f.at = 0) => f.fmt = "text"}

NoProbe == [file |-> [ex |-> FALSE, x |-> FALSE, marker |-> FALSE, at |-> 0,
                      fmt |-> "text", body |-> "A"],
            by |-> "-", res |-> "-"]

\* b'version https://git-lfs.github.com/spec/v1' in header
MarkerInHeader(f) == f.marker /\ f.at + MarkerLen <= HeaderLen

\* --------------------------------------------------- names and URLs
\* the tool of a key; every key is on the platform linux/amd64
NameOf(k) == CASE k = 1 -> "fzf" [] k = 2 -> "jq" [] OTHER -> "rg"

\* entry.get('tag', 'latest')
TagOf(k) == "latest"

\* the extension sync_tool gives a cache file: that of the URL
ExtOf(k) == CASE KindOf(k) = "tar" -> <<".tar", ".gz">>
              [] KindOf(k) = "zip" -> <<".zip">>
              [] OTHER -> <<>>

\* cache_filename = f"{tool_name}-{tag}-{platform}-{arch}" plus the extension;
\* a name is the sequence of its parts
CacheName(k) ==
  <<NameOf(k), "-", TagOf(k), "-", "linux", "-", "amd64">> \o ExtOf(k)

\* a release asset as projects name them
AssetUrl(k) ==
  <<"https://example/", NameOf(k), "_", "linux", "_", "amd64">> \o ExtOf(k)

\* a mirror that stores each asset under the cache file's name
MirrorUrl(k) == <<"https://example/">> \o CacheName(k)

\* the URLs a manifest can give a key; the cache file of a raw artifact has
\* no extension, and where it is served from makes no difference to it
UrlsOf(k) == IF ExtOf(k) = <<>> THEN {AssetUrl(k)} ELSE {AssetUrl(k), MirrorUrl(k)}

\* Path.suffix: the last dot-part of a file name, "" when it has none
Suffix(n) ==
  IF Len(n) > 0 /\ n[Len(n)] \in {".tar", ".gz", ".bz2", ".xz", ".zip", ".json"}
  THEN n[Len(n)] ELSE ""

\* cache_file.name in url
Contains(n, u) ==
  \E i \in 1..(Len(u) - Len(n) + 1) : SubSeq(u, i, i + Len(n) - 1) = n

\* ------------------------------------------------- pins and backups
Tools == Keys
Versions == {"v1", "v2"}
NoPin == "-"
NoPins == [t \in Tools |-> NoPin]
NoState == [k \in Keys |-> NoRec]

\* a backup file: {'timestamp', 'state', 'pins'}, or no file of that name
NoBackup == [ex |-> FALSE, state |-> NoState, pins |-> NoPins]
Seconds == 0..MaxClock

NoSnap == [ex |-> FALSE, file |-> 0, state |-> NoState, pins |-> NoPins]
NoMgrOp == [op |-> "-", file |-> 0, diff |-> FALSE]

MgrInit ==
  /\ pins = NoPins
  /\ backups = [f \in Seconds |-> NoBackup]
  /\ clock = 0
  /\ mops = 0
  /\ snap = NoSnap
  /\ mlast = NoMgrOp
  /\ pinhist = [t \in Tools |-> "-"]

\* ------------------------------------------------------ cache file names
\* manifest entries as sync_tool reads them: the tool, platform and arch of
\* the key, the entry's tag (or none) and the ending of the entry's url
ToolNames == {"git", "git-lfs", "fzf"}
NoTag == "-"
TagNames == {NoTag, "v3", "lfs-v3"}
PlatformNames == {"linux", "macos"}
ArchNames == {"amd64", "arm64"}
UrlEndings == {".tar.gz", ".zip", ".bin"}

Entries ==
  [tool : ToolNames, tag : TagNames, platform : PlatformNames,
   arch : ArchNames, ending : UrlEndings]

\* entry.get('tag', 'latest')
TagOrLatest(e) == IF e.tag = NoTag THEN "latest" ELSE e.tag

\* the chain of url.endswith tests: the extension a cache file name gets
CacheExtension(e) ==
  IF e.ending \in {".tar.gz", ".tar.bz2", ".tar.xz", ".zip"} THEN e.ending ELSE ""

\* f"{tool_name}-{tag}-{platform}-{arch}" and the extension
cache_filename(e) ==
  e.tool \o "-" \o TagOrLatest(e) \o "-" \o e.platform \o "-" \o e.arch
    \o CacheExtension(e)

\* the (tool_name, tag, platform, arch) of an entry
NameTuple(e) == <<e.tool, TagOrLatest(e), e.platform, e.arch>>

NoEntry == [tool |-> "-", tag |-> NoTag, platform |-> "-", arch |-> "-", ending |-> "-"]
NoNames == [a |-> NoEntry, b |-> NoEntry, fa |-> "-", fb |-> "-"]

\* ------------------------------------------------------ archive members
\* a path or a pattern is the sequence of its characters
MaxMembers == 2

\* the members an archive can list: regular files and directories
Members ==
  [name : {<<"f">>, <<"d", "/", "f">>, <<"f", "/", "f">>, <<"x", "f">>},
   dir : {FALSE}]
    \cup [name : {<<"d">>, <<"f">>}, dir : {TRUE}]

\* the values of binary_path
Patterns ==
  {<<"f">>, <<"d", "/", "f">>, <<"g">>, <<"*", "f">>, <<"d", "*", "f">>,
   <<"f", "*">>, <<"d", "*", "/", "*", "f">>, <<"f", "*", "f">>, <<"*", "*">>,
   <<"f", "*", "*", "d">>}

Listings == UNION {[1..n -> Members] : n \in 0..MaxMembers}

\* member.name of tar.getmembers(), the names of zf.namelist(): a zip
\* archive lists a directory with a trailing slash
ListedName(kind, m) ==
  IF kind = "zip" /\ m.dir THEN m.name \o <<"/">> ELSE m.name

\* path.startswith(part), path.endswith(part)
StartsWith(path, part) ==
  Len(part) <= Len(path) /\ SubSeq(path, 1, Len(part)) = part
EndsWith(path, part) ==
  Len(part) <= Len(path)
    /\ SubSeq(path, Len(path) - Len(part) + 1, Len(path)) = part

HasStar(pattern) == \E i \in 1..Len(pattern) : pattern[i] = "*"

\* pattern.split('*')
RECURSIVE SplitStar(_)
SplitStar(pattern) ==
  IF ~HasStar(pattern) THEN <<pattern>>
  ELSE LET i == CHOOSE j \in 1..Len(pattern) :
                  pattern[j] = "*" /\ \A h \in 1..(j - 1) : pattern[h] # "*"
       IN <<SubSeq(pattern, 1, i - 1)>>
            \o SplitStar(SubSeq(pattern, i + 1, Len(pattern)))

\* a plausible slip: only the text after the last wildcard is compared
_path_matches_SuffixOnly(path, pattern) ==
  EndsWith(path, SplitStar(pattern)[Len(SplitStar(pattern))])

\* _path_matches
_path_matches(path, pattern) ==
  IF ~HasStar(pattern) THEN EndsWith(path, pattern)
  ELSE LET parts == SplitStar(pattern)
       IN IF Len(parts) = 2
          THEN StartsWith(path, parts[1]) /\ EndsWith(path, parts[2])
          ELSE \A i \in 1..Len(parts) :
                 parts[i] # <<>> => Contains(parts[i], path)

\* the positions of the listing whose name matches binary_path
Matching(kind, listing, pattern) ==
  {i \in 1..Len(listing) : _path_matches(ListedName(kind, listing[i]), pattern)}

\* the member the loop of _extract_from_tar / _extract_from_zip stops at:
\* the first that matches, 0 when the loop runs to its end
FirstMatch(kind, listing, pattern) ==
  IF Matching(kind, listing, pattern) = {} THEN 0
  ELSE CHOOSE i \in Matching(kind, listing, pattern) :
         \A j \in Matching(kind, listing, pattern) : i <= j

\* the file at dest_path: whether it exists, the position in the listing of
\* the member it is a copy of (0: the file that was there before the call),
\* its executable bit
NoDest == [ex |-> FALSE, from |-> 0, x |-> FALSE]
OldDest == [ex |-> TRUE, from |-> 0, x |-> TRUE]

NoArc == [kind |-> "-", listing |-> <<>>, pattern |-> <<>>, pre |-> NoDest,
          dest |-> NoDest, res |-> "-"]

\* ------------------------------------------------ Git LFS configuration
\* configure-lfs-skip-smudge.py; a configuration value is the sequence of
\* its parts, a target such as linux/amd64 being one part
MaxExcludes == 2
MaxLfsRuns == 2

SUPPORTED_TARGETS == <<"linux/amd64", "linux/arm64", "macos/arm64">>
Targets == {SUPPORTED_TARGETS[i] : i \in 1..Len(SUPPORTED_TARGETS)}

\* f"{target}/**"
TargetPattern(t) == <<t, "/**">>

\* the lfs.fetchexclude values a repository may hold before the script runs:
\* the script's own patterns, a subdirectory of a target, and values that
\* start with no supported target
ExcludeValues ==
  {TargetPattern(t) : t \in Targets}
    \cup {<<"linux/arm64", "/old", "/**">>, <<"vendor", "/**">>,
          <<"archive/", "linux/arm64", "/**">>}

\* any(value.startswith(prefix) for prefix in SUPPORTED_TARGETS)
StartsWithTarget(value) == \E t \in Targets : StartsWith(value, <<t>>)

\* unset_value: git config --unset-all key re.escape(value) removes every
\* value the regular expression matches, and it matches anywhere in a value
unset_value(values, value) ==
  SelectSeq(values, LAMBDA v : ~Contains(value, v))

\* the loop over existing_excludes, from its i-th value on
RECURSIVE CleanUp(_, _, _)
CleanUp(existing, i, values) ==
  IF i > Len(existing) THEN values
  ELSE CleanUp(existing, i + 1,
               IF StartsWithTarget(existing[i])
               THEN unset_value(values, existing[i]) ELSE values)

\* exclude_dirs, as patterns, from the i-th supported target on
RECURSIVE ExcludePatterns(_, _)
ExcludePatterns(target, i) ==
  IF i > Len(SUPPORTED_TARGETS) THEN <<>>
  ELSE (IF SUPPORTED_TARGETS[i] = target THEN <<>>
        ELSE <<TargetPattern(SUPPORTED_TARGETS[i])>>)
         \o ExcludePatterns(target, i + 1)

\* the local git configuration the script writes
NoGitConfig == [smudge |-> "-", include |-> <<>>, exclude |-> <<>>]

\* configure_lfs(target) on a configuration
configure_lfs(cfg, target) ==
  [smudge |-> "skip",
   include |-> <<TargetPattern(target)>>,
   exclude |-> CleanUp(cfg.exclude, 1, cfg.exclude) \o ExcludePatterns(target, 1)]

NoLfs == [cfg |-> NoGitConfig, pre |-> NoGitConfig, one |-> NoGitConfig,
          runs |-> 0, target |-> "-", same |-> TRUE]

\* ------------------------------------------------ concurrent sync_tool
\* one sync_tool call per key, each in a process of its own: where the call
\* is, its force flag, the state mapping it loaded, what it returned; and
\* whether a call started while another was under way
NoProc == [pc |-> "start", force |-> FALSE, lstate |-> [k \in Keys |-> NoRec],
           res |-> "-"]
NoConc == [run |-> [p \in Keys |-> NoProc], overlap |-> FALSE]

\* ------------------------------------------------------ import_profile
\* a profile file: whether its platform and arch are the current ones, and
\* its tools, each with a name, a version (or none) and a pinned flag
MaxProfileTools == 2

ProfileTools ==
  [name : Keys \cup {MissingKey}, version : {NoPin, "v1"}, pinned : BOOLEAN]

Profiles ==
  [match : BOOLEAN,
   tools : UNION {[1..n -> ProfileTools] : n \in 0..MaxProfileTools}]

\* what the user can type at "Continue anyway? (y/N): "
Answers == {"y", "Y", "yes", "n", ""}

\* response.lower()
Lower(r) == IF r = "Y" THEN "y" ELSE r

\* an import_profile call: its phase, its arguments, whether it printed the
\* warning, what was typed, the tool of the loop it is at, the result of
\* install_tool for the tools before it, and the stores as the call found
\* them
NoImp ==
  [phase |-> "idle", profile |-> [match |-> TRUE, tools |-> <<>>],
   force |-> FALSE, warned |-> FALSE, answer |-> "-", idx |-> 0,
   results |-> <<>>,
   pre |-> [state |-> NoState, pins |-> NoPins,
            bin |-> [k \in Keys |-> NoBin], cache |-> [k \in Keys |-> NoFile]]]

\* ------------------------------------------------- install paths
\* the stores at the granularity of file names, for one platform/arch: the
\* manifest gives each tool an optional binary_name, binaries live at
\* bin/<name>, and sync_tool, sync_all, uninstall_tool, pin_version and
\* unpin_version are functions from one such world to the next
MaxPathOps == 3

\* the tools of the manifest, in the order of its keys
PathTools == <<"rg", "ripgrep">>
PathToolSet == {PathTools[i] : i \in 1..Len(PathTools)}

\* entry.get('binary_name'): absent, or a name
NoName == "-"
BinaryNames == {NoName, "rg"}
PathManifests == [PathToolSet -> BinaryNames]

\* binary_name = entry.get('binary_name', tool_name)
binary_name(man, t) == IF man[t] = NoName THEN t ELSE man[t]

\* the file at bin/<name>: whether it exists, the tool whose artifact it was
\* copied from, whether the copy ran to its end
NoPathFile == [ex |-> FALSE, of |-> "-", whole |-> FALSE]
PathFile(t, whole) == [ex |-> TRUE, of |-> t, whole |-> whole]

PinMaps == [PathToolSet -> {NoPin, "v1"}]

World(man, p) ==
  [man |-> man,
   files |-> [n \in PathToolSet |-> NoPathFile],
   cached |-> [t \in PathToolSet |-> FALSE],
   recs |-> [t \in PathToolSet |-> FALSE],
   pins |-> p]

\* where a sync_tool call can fail: download_file, the search of the archive,
\* the copy to the install path
Faults == {"none", "download", "extract", "copy"}

\* a plausible slip: a pinned tool is left as it is
sync_tool_HonoursPin(w, t, force, fault) ==
  IF w.pins[t] # NoPin THEN [w |-> w, res |-> "False"]
  ELSE IF ~force /\ w.recs[t] THEN [w |-> w, res |-> "True"]
  ELSE [w |-> [w EXCEPT !.cached[t] = TRUE,
                        !.files[binary_name(w.man, t)] = PathFile(t, TRUE),
                        !.recs[t] = TRUE],
        res |-> "True"]

\* sync_tool: the up-to-date check, download_file unless the cache file exists
\* and force is off, extract_binary to bin_dir / binary_name, then the record
sync_tool(w, t, force, fault) ==
  IF ~force /\ w.recs[t] THEN [w |-> w, res |-> "True"]
  ELSE
    LET download == force \/ ~w.cached[t]
        w1 == IF download /\ fault # "download"
              THEN [w EXCEPT !.cached[t] = TRUE] ELSE w
        at == binary_name(w.man, t)
    IN IF download /\ fault = "download" THEN [w |-> w, res |-> "False"]
       ELSE IF fault = "extract" THEN [w |-> w1, res |-> "False"]
       ELSE IF fault = "copy"
       THEN [w |-> [w1 EXCEPT !.files[at] = PathFile(t, FALSE)], res |-> "False"]
       ELSE [w |-> [w1 EXCEPT !.files[at] = PathFile(t, TRUE), !.recs[t] = TRUE],
             res |-> "True"]

\* sync_all: sync_tool for the keys of the manifest in their order, from the
\* i-th on; results[key] = success
RECURSIVE sync_all(_, _, _, _)
sync_all(w, i, force, faults) ==
  IF i > Len(PathTools) THEN [w |-> w, res |-> <<>>]
  ELSE LET one == sync_tool(w, PathTools[i], force, faults[i])
           rest == sync_all(one.w, i + 1, force, faults)
       IN [w |-> rest.w, res |-> <<one.res>> \o rest.res]

\* uninstall_tool: bin_path = .../bin/<tool_name> is unlinked if it exists,
\* the key's record is deleted
uninstall_tool(w, t) ==
  [w |-> [w EXCEPT !.files[t] = NoPathFile, !.recs[t] = FALSE], res |-> "True"]

\* pin_version, unpin_version
pin_version(w, t, v) == [w EXCEPT !.pins[t] = v]

NoOp == [op |-> "-", tool |-> "-", force |-> FALSE, res |-> "-", twin |-> "-"]

\* two runs that start from worlds which differ in the Pin Store only and
\* are given the same calls with the same faults; pre is the first run's
\* world before its last call
NoPaths ==
  [w |-> World([t \in PathToolSet |-> NoName], [t \in PathToolSet |-> NoPin]),
   twin |-> World([t \in PathToolSet |-> NoName], [t \in PathToolSet |-> NoPin]),
   pre |-> World([t \in PathToolSet |-> NoName], [t \in PathToolSet |-> NoPin]),
   last |-> NoOp, n |-> 0]

\* ------------------------------------------- the choice of extractor
\* manifest entries whose strings are sequences of parts, a part being a
\* stretch without a dot or a dot followed by such a stretch
DispTools == {<<"fzf">>, <<"bsd", ".tar">>}
DispTags == {<<>>, <<"v1", ".2">>, <<"v1", ".tar", ".2">>}
DispArchs == {<<"amd64">>, <<"amd64", ".zip">>}
DispUrls ==
  {<<"https://example/", "a">> \o ending :
     ending \in {<<".tar", ".gz">>, <<".tar", ".bz2">>, <<".tar", ".xz">>, <<".zip">>,
                 <<>>, <<".tgz">>}}

DispEntries ==
  [tool : DispTools, tag : DispTags, platform : {<<"linux">>}, arch : DispArchs,
   url : DispUrls]

\* the extension sync_tool appends: the first of the four the URL ends with
UrlExtension(u) ==
  IF EndsWith(u, <<".tar", ".gz">>) THEN <<".tar", ".gz">>
  ELSE IF EndsWith(u, <<".tar", ".bz2">>) THEN <<".tar", ".bz2">>
  ELSE IF EndsWith(u, <<".tar", ".xz">>) THEN <<".tar", ".xz">>
  ELSE IF EndsWith(u, <<".zip">>) THEN <<".zip">>
  ELSE <<>>

\* cache_filename = f"{tool_name}-{entry.get('tag', 'latest')}-{platform}-{arch}"
\* plus the extension
CacheFileParts(e) ==
  e.tool \o <<"-">> \o (IF e.tag = <<>> THEN <<"latest">> ELSE e.tag) \o <<"-">>
    \o e.platform \o <<"-">> \o e.arch \o UrlExtension(e.url)

\* extract_binary: the branch taken for a cache file of this name
extract_binary(name) ==
  IF Suffix(name) \in {".gz", ".bz2", ".xz"} \/ Contains(<<".tar">>, name) THEN "tar"
  ELSE IF Suffix(name) = ".zip" THEN "zip"
  ELSE "raw"

NoDisp == [e |-> [tool |-> <<>>, tag |-> <<>>, platform |-> <<>>, arch |-> <<>>,
                  url |-> <<>>],
           variant |-> "-"]

FInit ==
  /\ names = NoNames
  /\ arc = NoArc
  /\ lfs = NoLfs
  /\ conc = NoConc
  /\ imp = NoImp
  /\ paths = NoPaths
  /\ disp = NoDisp

SyncInit ==
  /\ manifest \in [Keys -> Digests]
  /\ remote \in [Keys -> {"down"} \cup Artifacts]
  /\ state = [k \in Keys |-> NoRec]
  /\ cache = [k \in Keys |-> NoFile]
  /\ bin = [k \in Keys |-> NoBin]
  /\ tmp = NoFile
  /\ leaked = FALSE
  /\ pc = "idle"
  /\ call = NoCall
  /\ last = NoLast
  /\ sa = NoRun
  /\ ops = 0

Init ==
  /\ SyncInit
  /\ MgrInit
  /\ url = [k \in Keys |-> AssetUrl(k)]
  /\ verif = NoProbe
  /\ FInit

\* ------------------------------------------------------- sync_tool: checks
\* a plausible slip: the force flag is not looked at
UpToDate_IgnoresForce(f, rec, sha) == rec.ex /\ rec.sha = sha

\* a plausible slip: a recorded key is up to date whatever digest is declared
UpToDate_RecordOnly(f, rec, sha) == ~f /\ rec.ex

\* a plausible slip: an entry without sha256 is never taken as up to date
UpToDate_OnlyWithDigest(f, rec, sha) == ~f /\ rec.ex /\ rec.sha = sha /\ sha # NoDigest

\* sync_tool, "Check if already up-to-date": not force, key in state, and
\* the recorded sha256 equals the manifest's (None == None when both absent)
UpToDate(f, rec, sha) == ~f /\ rec.ex /\ rec.sha = sha

\* a plausible slip: a cached file is reused without re-verification
CacheStale_Never(c, sha) == FALSE

\* sync_tool, "Verify cached file": only an entry with a sha256 is verified
CacheStale(c, sha) == sha # NoDigest /\ calculate_sha256(c) # sha

\* a plausible slip: force does not bypass the cache
NeedsDownload_IgnoresForce(f, c, sha) == ~c.ex \/ CacheStale(c, sha)

\* a plausible slip: a cached file is reused whenever there is one
NeedsDownload_OnlyIfMissing(f, c, sha) == f \/ ~c.ex

\* sync_tool, "Download if not cached or force", and the re-download of a
\* cached file whose sha256 does not match
NeedsDownload(f, c, sha) == f \/ ~c.ex \/ CacheStale(c, sha)

\* a plausible slip: the downloaded body is not verified
DigestMismatch_Never(t, sha) == FALSE

\* download_file, "Verify SHA256 if provided"
DigestMismatch(t, sha) == sha # NoDigest /\ calculate_sha256(t) # sha

\* a plausible slip: the record is written without the entry's sha256
NewRecord_NoSha(sha) == [ex |-> TRUE, sha |-> NoDigest]

\* sync_tool, "Update state": the record written for the key
NewRecord(sha) == [ex |-> TRUE, sha |-> sha]

\* return from sync_tool with the given record of the call
Finish(c, how) ==
  /\ pc' = "done"
  /\ call' = [c EXCEPT !.outcome = how]

\* ------------------------------------------------------ sync_tool: entry
\* a plausible slip: the URL is probed before the manifest is looked up
NewCall_ProbesFirst(k, f) ==
  [NoCall EXCEPT !.key = k, !.force = f, !.lstate = state, !.net = 1]

\* a call starts: nothing fetched, extracted or written yet
NewCall(k, f) == [NoCall EXCEPT !.key = k, !.force = f, !.lstate = state]

\* manifest lookup, load_state, the up-to-date check and the cache decision
Enter(k, f) ==
  LET c0 == NewCall(k, f)
  IN
  IF k \notin Keys
  THEN Finish(c0, "no_entry")
  ELSE
    LET sha == manifest[k]
        c1 == [c0 EXCEPT !.sha = sha, !.preCache = cache[k], !.preBin = bin[k]]
    IN
    IF UpToDate(f, state[k], sha)
    THEN Finish(c1, "up_to_date")
    ELSE /\ call' = [c1 EXCEPT !.outcome = "running"]
         /\ pc' = IF NeedsDownload(f, cache[k], sha) THEN "dl_open" ELSE "extract"

SyncTool(k, f) ==
  /\ pc = "idle"
  /\ sa.phase = "idle"
  /\ ops < MaxOps
  /\ ops' = ops + 1
  /\ Enter(k, f)
  /\ UNCHANGED <<fvars, mvars, verif, manifest, remote, state, cache, bin, tmp, leaked, last, sa>>

\* --------------------------------------------------------- download_file
\* NamedTemporaryFile(delete=False), then urlopen: an unreachable URL raises
\* URLError, caught: return False, the temporary file stays on disk
DlOpen ==
  /\ pc = "dl_open"
  /\ LET c == [call EXCEPT !.net = @ + 1]
     IN IF remote[call.key] = "down"
        THEN /\ Finish(c, "unreachable")
             /\ tmp' = NoFile
             /\ leaked' = TRUE
        ELSE /\ call' = c
             /\ pc' = "dl_read"
             /\ tmp' = [ex |-> TRUE, body |-> remote[call.key], len |-> 0]
             /\ UNCHANGED leaked
  /\ UNCHANGED <<fvars, mvars, verif, ops, manifest, remote, state, cache, bin, last, sa>>

\* response.read(chunk_size) / tmp_file.write(chunk)
DlReadChunk ==
  /\ pc = "dl_read"
  /\ remote[call.key] # Stalled
  /\ tmp.len < ChunkCount
  /\ tmp' = [tmp EXCEPT !.len = @ + 1]
  /\ UNCHANGED <<fvars, mvars, verif, ops, manifest, remote, state, cache, bin, leaked, pc, call, last, sa>>

\* a plausible slip: what was received so far is moved to the destination
DlReadFail_KeepsPartial ==
  /\ pc = "dl_read"
  /\ tmp.len < ChunkCount
  /\ Finish(call, "transport")
  /\ cache' = [cache EXCEPT ![call.key] = tmp]
  /\ tmp' = NoFile
  /\ UNCHANGED <<fvars, mvars, verif, ops, manifest, remote, state, bin, leaked, last, sa>>

\* a reset while reading, or no data for the 30 seconds of
\* urlopen(url, timeout=30): the exception is caught, return False
DlReadFail ==
  /\ pc = "dl_read"
  /\ tmp.len < ChunkCount
  /\ Finish(call, "transport")
  /\ tmp' = NoFile
  /\ leaked' = TRUE
  /\ UNCHANGED <<fvars, mvars, verif, ops, manifest, remote, state, cache, bin, last, sa>>

\* a plausible slip: a body that fails the sha256 check is fetched again
DlVerify_RetriesOnMismatch ==
  /\ pc = "dl_read"
  /\ tmp.len = ChunkCount
  /\ IF DigestMismatch(tmp, call.sha)
     THEN /\ pc' = "dl_open"
          /\ tmp' = NoFile
          /\ UNCHANGED call
     ELSE /\ pc' = "dl_move"
          /\ UNCHANGED <<call, tmp>>
  /\ UNCHANGED <<fvars, mvars, verif, ops, manifest, remote, state, cache, bin, leaked, last, sa>>

\* end of the body, then the sha256 check: on mismatch tmp_path.unlink()
DlVerify ==
  /\ pc = "dl_read"
  /\ tmp.len = ChunkCount
  /\ IF DigestMismatch(tmp, call.sha)
     THEN /\ Finish(call, "digest")
          /\ tmp' = NoFile
     ELSE /\ pc' = "dl_move"
          /\ UNCHANGED <<call, tmp>>
  /\ UNCHANGED <<fvars, mvars, verif, ops, manifest, remote, state, cache, bin, leaked, last, sa>>

\* shutil.move, temporary directory and destination on one filesystem:
\* os.rename replaces the destination in one step
DlMoveRename ==
  /\ pc = "dl_move"
  /\ cache' = [cache EXCEPT ![call.key] = tmp]
  /\ tmp' = NoFile
  /\ call' = [call EXCEPT !.fresh = TRUE]
  /\ pc' = "extract"
  /\ UNCHANGED <<fvars, mvars, verif, ops, manifest, remote, state, bin, leaked, last, sa>>

\* shutil.move across filesystems: os.rename fails, the destination is opened
\* for writing (truncated) and the body is copied chunk by chunk
DlMoveCopyOpen ==
  /\ pc = "dl_move"
  /\ cache' = [cache EXCEPT ![call.key] = [ex |-> TRUE, body |-> tmp.body, len |-> 0]]
  /\ pc' = "dl_copy"
  /\ UNCHANGED <<fvars, mvars, verif, ops, manifest, remote, state, bin, tmp, leaked, call, last, sa>>

DlMoveCopyChunk ==
  /\ pc = "dl_copy"
  /\ cache[call.key].len < tmp.len
  /\ cache' = [cache EXCEPT ![call.key].len = @ + 1]
  /\ UNCHANGED <<fvars, mvars, verif, ops, manifest, remote, state, bin, tmp, leaked, pc, call, last, sa>>

\* the copy fails (disk full): the exception is caught, return False
DlMoveCopyFail ==
  /\ pc = "dl_copy"
  /\ cache[call.key].len < tmp.len
  /\ Finish(call, "move")
  /\ tmp' = NoFile
  /\ leaked' = TRUE
  /\ UNCHANGED <<fvars, mvars, verif, ops, manifest, remote, state, cache, bin, last, sa>>

\* the copy is complete: os.unlink of the temporary file, return True
DlMoveCopyDone ==
  /\ pc = "dl_copy"
  /\ cache[call.key].len = tmp.len
  /\ tmp' = NoFile
  /\ call' = [call EXCEPT !.fresh = TRUE]
  /\ pc' = "extract"
  /\ UNCHANGED <<fvars, mvars, verif, ops, manifest, remote, state, cache, bin, leaked, last, sa>>

\* -------------------------------------------------------- extract_binary
\* the number of chunks the copy to the install path has to write: the whole
\* cache file for a raw artifact, the matched member for an archive
SrcLen(k) == IF KindOf(k) = "raw" THEN cache[k].len ELSE ChunkCount

\* the bytes the copy writes
SrcBody(k) == IF KindOf(k) = "raw" THEN cache[k].body ELSE MemberOf(cache[k].body)

\* _extract_from_tar / _extract_from_zip: a truncated archive cannot be read
\* and an archive without a matching member is an error; in both cases
\* extract_binary returns False before the install path is touched
ExtractFails(k) ==
  /\ KindOf(k) # "raw"
  /\ \/ cache[k].len < ChunkCount
     \/ ~HasMember(cache[k].body)

ExtractNoMember ==
  /\ pc = "extract"
  /\ ExtractFails(call.key)
  /\ Finish(call, "extract")
  /\ UNCHANGED <<fvars, mvars, verif, ops, manifest, remote, state, cache, bin, tmp, leaked, last, sa>>

\* shutil.copy(source, dest_path) opens the install path for writing: an
\* existing binary is truncated in place and keeps its mode
ExtractCopyOpen ==
  /\ pc = "extract"
  /\ ~ExtractFails(call.key)
  /\ bin' = [bin EXCEPT ![call.key] =
               [ex |-> TRUE, body |-> SrcBody(call.key), len |-> 0,
                tot |-> SrcLen(call.key), x |-> bin[call.key].ex /\ bin[call.key].x]]
  /\ call' = [call EXCEPT !.extracted = TRUE]
  /\ pc' = "copy"
  /\ UNCHANGED <<fvars, mvars, verif, ops, manifest, remote, state, cache, tmp, leaked, last, sa>>

ExtractCopyChunk ==
  /\ pc = "copy"
  /\ bin[call.key].len < bin[call.key].tot
  /\ bin' = [bin EXCEPT ![call.key].len = @ + 1]
  /\ UNCHANGED <<fvars, mvars, verif, ops, manifest, remote, state, cache, tmp, leaked, pc, call, last, sa>>

\* the copy fails part-way (disk full): extract_binary catches the exception
\* and returns False, sync_tool returns False
ExtractCopyFail ==
  /\ pc = "copy"
  /\ bin[call.key].len < bin[call.key].tot
  /\ Finish(call, "copy")
  /\ UNCHANGED <<fvars, mvars, verif, ops, manifest, remote, state, cache, bin, tmp, leaked, last, sa>>

\* the copy is complete: dest_path.chmod(0o755)
ExtractChmod ==
  /\ pc = "copy"
  /\ bin[call.key].len = bin[call.key].tot
  /\ bin' = [bin EXCEPT ![call.key].x = TRUE]
  /\ pc' = "save"
  /\ UNCHANGED <<fvars, mvars, verif, ops, manifest, remote, state, cache, tmp, leaked, call, last, sa>>

\* a plausible slip: the installed tool is recorded in the Pin Store as well
SaveState_RecordsPin ==
  /\ pc = "save"
  /\ state' = [call.lstate EXCEPT ![call.key] = NewRecord(call.sha)]
  /\ pins' = [pins EXCEPT ![call.key] = "v1"]
  /\ Finish([call EXCEPT !.wrote = TRUE], "installed")
  /\ UNCHANGED <<fvars, url, backups, clock, mops, snap, mlast, pinhist, verif, ops, manifest,
                 remote, cache, bin, tmp, leaked, last, sa>>

\* state[key] = {...}; save_state(state): the mapping loaded at the start of
\* the call, with this key's record replaced, overwrites the state file
SaveState ==
  /\ pc = "save"
  /\ state' = [call.lstate EXCEPT ![call.key] = NewRecord(call.sha)]
  /\ Finish([call EXCEPT !.wrote = TRUE], "installed")
  /\ UNCHANGED <<fvars, mvars, verif, ops, manifest, remote, cache, bin, tmp, leaked, last, sa>>

\* save_state cannot open the state file for writing (read-only directory,
\* quota): the OSError is not caught in sync_tool and leaves it; the state
\* file is as it was, the binary is installed
SaveStateFail ==
  /\ pc = "save"
  /\ Finish(call, "raised")
  /\ UNCHANGED <<fvars, mvars, verif, ops, manifest, remote, state, cache, bin, tmp, leaked, last, sa>>

\* ------------------------------------------------------------- sync_all
Succeeded(c) == c.outcome \in {"up_to_date", "installed"}

Summary(c) == [key |-> c.key, ok |-> Succeeded(c), net |-> c.net]

\* a plausible slip: the loop stops at the first failed key
LoopGoesOn_UntilFailure(i, ok) == i < NumKeys /\ ok

\* for key in manifest: the loop goes on to the next key whatever the result
LoopGoesOn(i, ok) == i < NumKeys

\* a stand-alone sync_tool call returns to its caller
Return ==
  /\ pc = "done"
  /\ sa.phase = "idle"
  /\ pc' = "idle"
  /\ last' = IF call.force THEN NoLast ELSE Summary(call)
  /\ call' = NoCall
  /\ UNCHANGED <<fvars, mvars, verif, ops, manifest, remote, state, cache, bin, tmp, leaked, sa>>

\* sync_all: load_manifest, then the first key of the loop
SyncAll(f) ==
  /\ pc = "idle"
  /\ sa.phase = "idle"
  /\ ops < MaxOps
  /\ ops' = ops + 1
  /\ sa' = [NoRun EXCEPT !.phase = "run", !.idx = 1, !.force = f]
  /\ Enter(1, f)
  /\ UNCHANGED <<fvars, mvars, verif, manifest, remote, state, cache, bin, tmp, leaked, last>>

\* results[key] = success, then the next key of the loop, or return results
SyncAllNext ==
  /\ pc = "done"
  /\ sa.phase = "run"
  /\ call.outcome # "raised"
  /\ LET r == [sa EXCEPT
                 !.results[sa.idx] = IF Succeeded(call) THEN "T" ELSE "F",
                 !.tried = IF call.net > 0 THEN @ \cup {sa.idx} ELSE @,
                 !.fault = @ \/ (~Succeeded(call) /\ call.outcome # "unreachable")]
     IN IF LoopGoesOn(sa.idx, Succeeded(call))
        THEN /\ sa' = [r EXCEPT !.idx = @ + 1]
             /\ Enter(sa.idx + 1, sa.force)
        ELSE /\ sa' = [r EXCEPT !.phase = "done"]
             /\ pc' = "idle"
             /\ call' = NoCall
  /\ last' = IF call.force THEN NoLast ELSE Summary(call)
  /\ UNCHANGED <<fvars, mvars, verif, ops, manifest, remote, state, cache, bin, tmp, leaked>>

\* sync_tool raised: sync_all has no try/except around the call, the
\* exception leaves the loop and sync_all, and no result map is returned
SyncAllRaise ==
  /\ pc = "done"
  /\ sa.phase = "run"
  /\ call.outcome = "raised"
  /\ sa' = [sa EXCEPT !.phase = "raised", !.fault = TRUE]
  /\ pc' = "idle"
  /\ call' = NoCall
  /\ last' = NoLast
  /\ UNCHANGED <<fvars, mvars, verif, ops, manifest, remote, state, cache, bin, tmp, leaked>>

\* the caller has taken the result map, or the exception
SyncAllReturn ==
  /\ sa.phase \in {"done", "raised"}
  /\ sa' = NoRun
  /\ UNCHANGED <<fvars, mvars, verif, ops, manifest, remote, state, cache, bin, tmp, leaked, pc, call, last>>

\* ---------------------------------------------------------- environment
\* the process is killed in the middle of a sync: its locals are lost, the
\* files stay as they are
Crash ==
  /\ pc \notin {"idle", "done"}
  /\ pc' = "idle"
  /\ call' = NoCall
  /\ sa' = NoRun
  /\ last' = NoLast
  /\ leaked' = (leaked \/ tmp.ex)
  /\ tmp' = NoFile
  /\ UNCHANGED <<fvars, mvars, verif, ops, manifest, remote, state, cache, bin>>

\* one more invocation or environment change
Step ==
  /\ ops < MaxOps
  /\ ops' = ops + 1

Quiet == pc = "idle" /\ sa.phase = "idle" /\ Step

\* the manifest file is edited between two invocations
ChangeManifest(k, d) ==
  /\ Quiet
  /\ manifest[k] # d
  /\ manifest' = [manifest EXCEPT ![k] = d]
  /\ last' = NoLast
  /\ UNCHANGED <<fvars, mvars, verif, remote, state, cache, bin, tmp, leaked, pc, call, sa>>

\* the release behind a URL is replaced, removed or restored
ChangeRemote(k, r) ==
  /\ Quiet
  /\ remote[k] # r
  /\ remote' = [remote EXCEPT ![k] = r]
  /\ last' = NoLast
  /\ UNCHANGED <<fvars, mvars, verif, manifest, state, cache, bin, tmp, leaked, pc, call, sa>>

\* a cache file is corrupted on disk (truncated) between two invocations
CorruptCache(k) ==
  /\ Quiet
  /\ cache[k].ex
  /\ cache[k].len = ChunkCount
  /\ cache' = [cache EXCEPT ![k].len = ChunkCount - 1]
  /\ last' = NoLast
  /\ UNCHANGED <<fvars, mvars, verif, manifest, remote, state, bin, tmp, leaked, pc, call, sa>>

Next ==
  \/ \E k \in Keys \cup {MissingKey}, f \in BOOLEAN : SyncTool(k, f)
  \/ DlOpen
  \/ DlReadChunk
  \/ DlReadFail
  \/ DlVerify
  \/ DlMoveRename
  \/ DlMoveCopyOpen
  \/ DlMoveCopyChunk
  \/ DlMoveCopyFail
  \/ DlMoveCopyDone
  \/ ExtractNoMember
  \/ ExtractCopyOpen
  \/ ExtractCopyChunk
  \/ ExtractCopyFail
  \/ ExtractChmod
  \/ SaveState
  \/ SaveStateFail
  \/ Return
  \/ \E f \in BOOLEAN : SyncAll(f)
  \/ SyncAllNext
  \/ SyncAllRaise
  \/ SyncAllReturn
  \/ Crash
  \/ \E k \in Keys, d \in Digests : ChangeManifest(k, d)
  \/ \E k \in Keys, r \in {"down"} \cup Artifacts : ChangeRemote(k, r)
  \/ \E k \in Keys : CorruptCache(k)

Spec == Init /\ [][Next]_vars

\* ---------------------------------------------------------- the verifiers
\* SecurityScanner.verify_binary(binary_path, expected_sha256)
verify_binary(f, expected) ==
  IF ~f.ex THEN "not_found"
  ELSE IF MarkerInHeader(f) THEN "lfs_pointer"
  ELSE IF ~f.x THEN "not_executable"
  ELSE IF expected # NoDigest /\ [of |-> f.body, n |-> ChunkCount] # expected
       THEN "sha_mismatch"
  ELSE "valid"

\* what subprocess.run([path, '--version'], timeout=5) can give: a file the
\* kernel cannot execute raises OSError, any other file exits or times out
RunOutcomes(f) ==
  IF f.fmt = "text" THEN {"oserror"} ELSE {"exit0", "exit1", "timeout"}

\* ToolManager.verify_installation, the checks made on one tool
verify_installation(f, run) ==
  IF ~f.ex THEN "not_found"
  ELSE IF ~f.x THEN "not_executable"
  ELSE IF run = "exit0" THEN "working"
  ELSE "failed"

Accepted(r) == r \in {"valid", "working"}

VerifyBinary(expected) ==
  /\ verif.by = "-"
  /\ verif' = [verif EXCEPT !.by = "verify_binary",
                            !.res = verify_binary(verif.file, expected)]
  /\ UNCHANGED <<fvars, mvars, manifest, remote, state, cache, bin, tmp, leaked, pc, call, last, sa, ops>>

VerifyInstallation(run) ==
  /\ verif.by = "-"
  /\ run \in RunOutcomes(verif.file)
  /\ verif' = [verif EXCEPT !.by = "verify_installation",
                            !.res = verify_installation(verif.file, run)]
  /\ UNCHANGED <<fvars, mvars, manifest, remote, state, cache, bin, tmp, leaked, pc, call, last, sa, ops>>

InitVerify ==
  /\ SyncInit
  /\ MgrInit
  /\ url = [k \in Keys |-> AssetUrl(k)]
  /\ manifest = [k \in Keys |-> NoDigest]
  /\ remote = [k \in Keys |-> "down"]
  /\ \E f \in ProbedFiles : verif = [NoProbe EXCEPT !.file = f]
  /\ FInit

NextVerify ==
  \/ \E d \in Digests : VerifyBinary(d)
  \/ \E r \in {"exit0", "exit1", "timeout", "oserror"} : VerifyInstallation(r)

SpecVerify == InitVerify /\ [][NextVerify]_vars

\* ------------------------------------------- cache file names, on their own
\* the stores as they are before anything ran, for the functions that are
\* studied on their own
StoresAtRest ==
  /\ SyncInit
  /\ MgrInit
  /\ url = [k \in Keys |-> AssetUrl(k)]
  /\ manifest = [k \in Keys |-> NoDigest]
  /\ remote = [k \in Keys |-> "down"]
  /\ verif = NoProbe

\* sync_tool names the cache files of two entries of one manifest
CacheFilenames ==
  /\ names.fa = "-"
  /\ names' = [names EXCEPT !.fa = cache_filename(names.a),
                            !.fb = cache_filename(names.b)]
  /\ UNCHANGED <<paths, disp, arc, lfs, conc, imp, mvars, verif, manifest, remote, state, cache, bin, tmp, leaked,
                 pc, call, last, sa, ops>>

\* two entries of one manifest have different keys
InitNames ==
  /\ StoresAtRest
  /\ \E a \in Entries, b \in Entries :
       /\ <<a.tool, a.platform, a.arch>> # <<b.tool, b.platform, b.arch>>
       /\ names = [NoNames EXCEPT !.a = a, !.b = b]
  /\ arc = NoArc
  /\ lfs = NoLfs
  /\ conc = NoConc
  /\ imp = NoImp
  /\ paths = NoPaths
  /\ disp = NoDisp

NextNames == CacheFilenames

SpecNames == InitNames /\ [][NextNames]_vars

\* ------------------------------------------- extract_binary, on its own
\* extract_binary on a tar or zip archive: no member matches, return False;
\* the first matching member is extracted to a temporary directory and
\* copied to dest_path, which is made executable, return True; when that
\* member is a directory shutil.copy raises IsADirectoryError before it
\* opens dest_path, extract_binary catches it and returns False
ExtractBinary ==
  /\ arc.res = "-"
  /\ LET i == FirstMatch(arc.kind, arc.listing, arc.pattern)
     IN IF i = 0 \/ arc.listing[i].dir
        THEN arc' = [arc EXCEPT !.res = "False"]
        ELSE arc' = [arc EXCEPT !.res = "True",
                                !.dest = [ex |-> TRUE, from |-> i, x |-> TRUE]]
  /\ UNCHANGED <<paths, disp, names, lfs, conc, imp, mvars, verif, manifest, remote, state, cache, bin, tmp, leaked,
                 pc, call, last, sa, ops>>

InitExtract ==
  /\ StoresAtRest
  /\ names = NoNames
  /\ \E kind \in {"tar", "zip"}, l \in Listings, pat \in Patterns,
        d \in {NoDest, OldDest} :
       arc = [NoArc EXCEPT !.kind = kind, !.listing = l, !.pattern = pat,
                           !.pre = d, !.dest = d]
  /\ lfs = NoLfs
  /\ conc = NoConc
  /\ imp = NoImp
  /\ paths = NoPaths
  /\ disp = NoDisp

NextExtract == ExtractBinary

SpecExtract == InitExtract /\ [][NextExtract]_vars

\* ------------------------------------------- configure_lfs, on its own
\* one run of configure_lfs(target); the record keeps the configuration
\* before the first run and after it, and whether every run had one target
ConfigureLfs(target) ==
  /\ lfs.runs < MaxLfsRuns
  /\ lfs' = [cfg |-> configure_lfs(lfs.cfg, target),
             pre |-> lfs.pre,
             one |-> IF lfs.runs = 0 THEN configure_lfs(lfs.cfg, target) ELSE lfs.one,
             runs |-> lfs.runs + 1,
             target |-> target,
             same |-> lfs.same /\ (lfs.runs = 0 \/ lfs.target = target)]
  /\ UNCHANGED <<paths, disp, names, arc, conc, imp, mvars, verif, manifest, remote, state, cache, bin, tmp,
                 leaked, pc, call, last, sa, ops>>

InitLfs ==
  /\ StoresAtRest
  /\ names = NoNames
  /\ arc = NoArc
  /\ \E n \in 0..MaxExcludes :
       \E ex \in [1..n -> ExcludeValues],
          inc \in {<<>>, <<TargetPattern("linux/arm64")>>,
                   <<<<"vendor", "/**">>, TargetPattern("linux/amd64")>>} :
         LET c == [smudge |-> "-", include |-> inc, exclude |-> ex]
         IN lfs = [NoLfs EXCEPT !.cfg = c, !.pre = c]
  /\ conc = NoConc
  /\ imp = NoImp
  /\ paths = NoPaths
  /\ disp = NoDisp

NextLfs == \E t \in Targets : ConfigureLfs(t)

SpecLfs == InitLfs /\ [][NextLfs]_vars

\* ------------------------------------------------------ the tool manager
\* one more tool manager operation, between two sync invocations
MgrStep ==
  /\ pc = "idle"
  /\ sa.phase = "idle"
  /\ mops < MaxMgrOps
  /\ mops' = mops + 1

\* is_pinned: tool_name in pins
is_pinned(t) == pins[t] # NoPin

\* get_pinned_version: pins.get(tool_name)
get_pinned_version(t) == pins[t]

\* a plausible slip: an existing pin is kept (setdefault)
PinVersion_KeepsExisting(t, v) ==
  /\ MgrStep
  /\ pins' = IF pins[t] = NoPin THEN [pins EXCEPT ![t] = v] ELSE pins
  /\ pinhist' = [pinhist EXCEPT ![t] = v]
  /\ mlast' = [op |-> "pin", file |-> 0, diff |-> pins[t] \notin {NoPin, v}]
  /\ last' = NoLast
  /\ UNCHANGED <<fvars, manifest, remote, state, cache, bin, tmp, leaked, pc, call, sa, ops,
                 verif, url, backups, clock, snap>>

\* pin_version: pins[tool_name] = version, then _save_pins
PinVersion(t, v) ==
  /\ MgrStep
  /\ pins' = [pins EXCEPT ![t] = v]
  /\ pinhist' = [pinhist EXCEPT ![t] = v]
  /\ mlast' = [op |-> "pin", file |-> 0, diff |-> pins[t] \notin {NoPin, v}]
  /\ last' = NoLast
  /\ UNCHANGED <<fvars, manifest, remote, state, cache, bin, tmp, leaked, pc, call, sa, ops,
                 verif, url, backups, clock, snap>>

\* unpin_version: del pins[tool_name] and _save_pins when the tool is pinned,
\* a message and nothing else when it is not
UnpinVersion(t) ==
  /\ MgrStep
  /\ pins' = IF is_pinned(t) THEN [pins EXCEPT ![t] = NoPin] ELSE pins
  /\ pinhist' = [pinhist EXCEPT ![t] = "unpin"]
  /\ mlast' = [op |-> "unpin", file |-> 0, diff |-> is_pinned(t)]
  /\ last' = NoLast
  /\ UNCHANGED <<fvars, manifest, remote, state, cache, bin, tmp, leaked, pc, call, sa, ops,
                 verif, url, backups, clock, snap>>

\* a plausible slip: the binary is removed and the record is left
UninstallTool_KeepsRecord(k) ==
  /\ MgrStep
  /\ bin' = [bin EXCEPT ![k] = NoBin]
  /\ mlast' = [op |-> "uninstall", file |-> 0, diff |-> bin[k].ex]
  /\ last' = NoLast
  /\ UNCHANGED <<fvars, manifest, remote, state, cache, tmp, leaked, pc, call, sa, ops,
                 verif, url, pins, backups, clock, snap, pinhist>>

\* uninstall_tool: unlink the binary if it exists, then delete the key's
\* record from the state and save it if there is one
UninstallTool(k) ==
  /\ MgrStep
  /\ bin' = [bin EXCEPT ![k] = NoBin]
  /\ state' = IF state[k].ex THEN [state EXCEPT ![k] = NoRec] ELSE state
  /\ mlast' = [op |-> "uninstall", file |-> 0, diff |-> bin[k].ex \/ state[k].ex]
  /\ last' = NoLast
  /\ UNCHANGED <<fvars, manifest, remote, cache, tmp, leaked, pc, call, sa, ops,
                 verif, url, pins, backups, clock, snap, pinhist>>

\* create_backup: the file is named after the current second,
\* .backup_%Y%m%d_%H%M%S.json, and opened with mode 'w'; it holds the whole
\* state mapping and the whole pin mapping
CreateBackup ==
  /\ MgrStep
  /\ backups' = [backups EXCEPT ![clock] =
                   [ex |-> TRUE, state |-> state, pins |-> pins]]
  /\ snap' = [ex |-> TRUE, file |-> clock, state |-> state, pins |-> pins]
  /\ mlast' = [op |-> "backup", file |-> clock, diff |-> backups[clock].ex]
  /\ last' = NoLast
  /\ UNCHANGED <<fvars, manifest, remote, state, cache, bin, tmp, leaked, pc, call, sa, ops,
                 verif, url, pins, clock, pinhist>>

\* a plausible slip: the pins of the backup are not written back
RestoreBackup_StateOnly(f) ==
  /\ MgrStep
  /\ backups[f].ex
  /\ state' = backups[f].state
  /\ pinhist' = [t \in Tools |-> "?"]
  /\ mlast' = [op |-> "restore", file |-> f,
               diff |-> state # backups[f].state \/ pins # backups[f].pins]
  /\ last' = NoLast
  /\ UNCHANGED <<fvars, manifest, remote, cache, bin, tmp, leaked, pc, call, sa, ops,
                 verif, url, pins, backups, clock, snap>>

\* a plausible slip: restore removes the binaries that have no restored record
RestoreBackup_RemovesOrphans(f) ==
  /\ MgrStep
  /\ backups[f].ex
  /\ state' = backups[f].state
  /\ pins' = backups[f].pins
  /\ bin' = [k \in Keys |-> IF backups[f].state[k].ex THEN bin[k] ELSE NoBin]
  /\ pinhist' = [t \in Tools |-> "?"]
  /\ mlast' = [op |-> "restore", file |-> f,
               diff |-> state # backups[f].state \/ pins # backups[f].pins]
  /\ last' = NoLast
  /\ UNCHANGED <<fvars, manifest, remote, cache, tmp, leaked, pc, call, sa, ops,
                 verif, url, backups, clock, snap>>

\* restore_backup of an existing backup file: save_state(backup_data['state'])
\* and _save_pins(backup_data['pins']); no binary is touched
RestoreBackup(f) ==
  /\ MgrStep
  /\ backups[f].ex
  /\ state' = backups[f].state
  /\ pins' = backups[f].pins
  /\ pinhist' = [t \in Tools |-> "?"]
  /\ mlast' = [op |-> "restore", file |-> f,
               diff |-> state # backups[f].state \/ pins # backups[f].pins]
  /\ last' = NoLast
  /\ UNCHANGED <<fvars, manifest, remote, cache, bin, tmp, leaked, pc, call, sa, ops,
                 verif, url, backups, clock, snap>>

\* ------------------------------------------------------------ clean_cache
\* the URLs of the current records; a record holds the URL of its key's
\* manifest entry, which no operation of the model changes
CurrentUrls == {url[k] : k \in {j \in Keys : state[j].ex}}

\* any(url and cache_file.name in url for url in current_urls)
Referenced(k) == \E u \in CurrentUrls : Contains(CacheName(k), u)

\* cache_file.suffix in ['.gz', '.bz2', '.xz', '.zip']
Cleanable(k) == Suffix(CacheName(k)) \in {".gz", ".bz2", ".xz", ".zip"}

\* clean_cache(keep_current): every file of the cache directory with an
\* archive suffix is unlinked, unless keep_current and its name is part of the
\* URL of a current record
CleanCache(keep) ==
  /\ MgrStep
  /\ cache' = [k \in Keys |->
                 IF cache[k].ex /\ Cleanable(k) /\ (~keep \/ ~Referenced(k))
                 THEN NoFile ELSE cache[k]]
  /\ mlast' = [op |-> "clean", file |-> 0, diff |-> cache' # cache]
  /\ last' = NoLast
  /\ UNCHANGED <<fvars, manifest, remote, state, bin, tmp, leaked, pc, call, sa, ops,
                 verif, url, pins, backups, clock, snap, pinhist>>

\* a second of wall-clock time passes between two operations
Tick ==
  /\ pc = "idle"
  /\ sa.phase = "idle"
  /\ clock < MaxClock
  /\ clock' = clock + 1
  /\ UNCHANGED <<fvars, manifest, remote, state, cache, bin, tmp, leaked, pc, call, last, sa,
                 ops, verif, url, pins, backups, mops, snap, mlast, pinhist>>

\* what a successful sync_tool call leaves for a key: the verified artifact in
\* the cache, its binary at the install path, its record in the State Store
InstalledCache == [ex |-> TRUE, body |-> "A", len |-> ChunkCount]

InstalledBin(k) ==
  [ex |-> TRUE, body |-> IF KindOf(k) = "raw" THEN "A" ELSE MemberOf("A"),
   len |-> ChunkCount, tot |-> ChunkCount, x |-> TRUE]

\* the keys whose manifest entry declares no digest and whose published
\* archive holds no member that matches path_in_archive
Unverified(m, r) == {k \in Keys : m[k] = NoDigest /\ r[k] = "B"}

\* the tool manager works on the stores that earlier invocations left: every
\* key's release is published; its manifest entry declares the release's
\* digest, or it is an archive's entry that declares none; a key was never
\* synced or is installed, and MaxMgrSyncs more sync invocations follow; a
\* manifest URL is a release asset's or a mirror's
InitManager ==
  /\ manifest \in [Keys -> {ShaOf("A"), NoDigest}]
  /\ remote \in [Keys -> Artifacts]
  /\ \A k \in Keys :
       \/ (manifest[k] = ShaOf("A") /\ remote[k] = "A")
       \/ (k \in Unverified(manifest, remote) /\ KindOf(k) # "raw")
  /\ \E inst \in SUBSET (Keys \ Unverified(manifest, remote)) :
       /\ state = [k \in Keys |-> IF k \in inst THEN NewRecord(manifest[k]) ELSE NoRec]
       /\ cache = [k \in Keys |-> IF k \in inst THEN InstalledCache ELSE NoFile]
       /\ bin = [k \in Keys |-> IF k \in inst THEN InstalledBin(k) ELSE NoBin]
  /\ tmp = NoFile
  /\ leaked = FALSE
  /\ pc = "idle"
  /\ call = NoCall
  /\ last = NoLast
  /\ sa = NoRun
  /\ ops = MaxOps - MaxMgrSyncs
  /\ MgrInit
  /\ url \in [Keys -> UNION {{AssetUrl(k), MirrorUrl(k)} : k \in Keys}]
  /\ \A k \in Keys : url[k] \in UrlsOf(k)
  /\ verif = NoProbe
  /\ FInit

NextManager ==
  \/ \E k \in Keys \cup {MissingKey}, f \in BOOLEAN : SyncTool(k, f)
  \/ DlOpen
  \/ DlReadChunk
  \/ DlReadFail
  \/ DlVerify
  \/ DlMoveRename
  \/ DlMoveCopyOpen
  \/ DlMoveCopyChunk
  \/ DlMoveCopyFail
  \/ DlMoveCopyDone
  \/ ExtractNoMember
  \/ ExtractCopyOpen
  \/ ExtractCopyChunk
  \/ ExtractCopyFail
  \/ ExtractChmod
  \/ SaveState
  \/ SaveStateFail
  \/ Return
  \/ \E f \in BOOLEAN : SyncAll(f)
  \/ SyncAllNext
  \/ SyncAllRaise
  \/ SyncAllReturn
  \/ Crash
  \/ \E t \in Tools, v \in Versions : PinVersion(t, v)
  \/ \E t \in Tools : UnpinVersion(t)
  \/ \E k \in Keys : UninstallTool(k)
  \/ CreateBackup
  \/ \E f \in Seconds : RestoreBackup(f)
  \/ \E keep \in BOOLEAN : CleanCache(keep)
  \/ Tick

SpecManager == InitManager /\ [][NextManager]_vars

\* ------------------------------------- sync_tool calls in two processes
\* a call that has loaded the state and has not returned
InFlight(p) == conc.run[p].pc \in {"loaded", "fetched", "installed"}

Returns(p, r) ==
  conc' = [conc EXCEPT !.run[p].pc = "done", !.run[p].res = r]

\* load_manifest, load_state and the up-to-date check of the call on key p
CLoad(p) ==
  /\ conc.run[p].pc = "start"
  /\ IF UpToDate(conc.run[p].force, state[p], manifest[p])
     THEN conc' = [conc EXCEPT !.run[p].pc = "done", !.run[p].res = "T",
                              !.overlap = @ \/ \E q \in Keys \ {p} : InFlight(q)]
     ELSE conc' = [conc EXCEPT !.run[p].pc = "loaded", !.run[p].lstate = state,
                              !.overlap = @ \/ \E q \in Keys \ {p} : InFlight(q)]
  /\ UNCHANGED <<paths, disp, names, arc, lfs, imp, mvars, verif, manifest, remote, state, cache, bin, tmp,
                 leaked, pc, call, last, sa, ops>>

\* the cache decision and download_file: return False when the download
\* fails, else the verified body is at the cache path
CFetch(p) ==
  /\ conc.run[p].pc = "loaded"
  /\ LET body == [ex |-> TRUE, body |-> remote[p], len |-> ChunkCount]
     IN IF ~NeedsDownload(conc.run[p].force, cache[p], manifest[p])
        THEN /\ conc' = [conc EXCEPT !.run[p].pc = "fetched"]
             /\ UNCHANGED cache
        ELSE IF remote[p] = "down" \/ DigestMismatch(body, manifest[p])
        THEN /\ Returns(p, "F")
             /\ UNCHANGED cache
        ELSE /\ conc' = [conc EXCEPT !.run[p].pc = "fetched"]
             /\ cache' = [cache EXCEPT ![p] = body]
  /\ UNCHANGED <<paths, disp, names, arc, lfs, imp, mvars, verif, manifest, remote, state, bin, tmp,
                 leaked, pc, call, last, sa, ops>>

\* extract_binary: return False when it fails, else the binary is installed
CExtract(p) ==
  /\ conc.run[p].pc = "fetched"
  /\ IF ExtractFails(p)
     THEN /\ Returns(p, "F")
          /\ UNCHANGED bin
     ELSE /\ conc' = [conc EXCEPT !.run[p].pc = "installed"]
          /\ bin' = [bin EXCEPT ![p] = [ex |-> TRUE, body |-> SrcBody(p),
                                        len |-> ChunkCount, tot |-> ChunkCount,
                                        x |-> TRUE]]
  /\ UNCHANGED <<paths, disp, names, arc, lfs, imp, mvars, verif, manifest, remote, state, cache, tmp,
                 leaked, pc, call, last, sa, ops>>

\* a plausible slip: the state file is written with the call's record only
CSave_OwnRecordOnly(p) ==
  /\ conc.run[p].pc = "installed"
  /\ state' = [NoState EXCEPT ![p] = NewRecord(manifest[p])]
  /\ Returns(p, "T")
  /\ UNCHANGED <<paths, disp, names, arc, lfs, imp, mvars, verif, manifest, remote, cache, bin, tmp,
                 leaked, pc, call, last, sa, ops>>

\* state[key] = {...}; save_state(state): the mapping the call loaded, with
\* the key's new record, replaces the state file; return True
CSave(p) ==
  /\ conc.run[p].pc = "installed"
  /\ state' = [conc.run[p].lstate EXCEPT ![p] = NewRecord(manifest[p])]
  /\ Returns(p, "T")
  /\ UNCHANGED <<paths, disp, names, arc, lfs, imp, mvars, verif, manifest, remote, cache, bin, tmp,
                 leaked, pc, call, last, sa, ops>>

\* every key's manifest entry declares the digest of release A or none; a
\* key was never synced or is installed; one call per key, forced or not
InitConcurrent ==
  /\ manifest \in [Keys -> {ShaOf("A"), NoDigest}]
  /\ remote \in [Keys -> {"down"} \cup Artifacts]
  /\ \E inst \in SUBSET Keys :
       /\ state = [k \in Keys |-> IF k \in inst THEN NewRecord(manifest[k]) ELSE NoRec]
       /\ cache = [k \in Keys |-> IF k \in inst THEN InstalledCache ELSE NoFile]
       /\ bin = [k \in Keys |-> IF k \in inst THEN InstalledBin(k) ELSE NoBin]
  /\ tmp = NoFile
  /\ leaked = FALSE
  /\ pc = "idle"
  /\ call = NoCall
  /\ last = NoLast
  /\ sa = NoRun
  /\ ops = 0
  /\ MgrInit
  /\ url = [k \in Keys |-> AssetUrl(k)]
  /\ verif = NoProbe
  /\ names = NoNames
  /\ arc = NoArc
  /\ lfs = NoLfs
  /\ \E f \in [Keys -> BOOLEAN] :
       conc = [NoConc EXCEPT !.run = [p \in Keys |-> [NoProc EXCEPT !.force = f[p]]]]
  /\ imp = NoImp
  /\ paths = NoPaths
  /\ disp = NoDisp

NextConcurrent ==
  \/ \E p \in Keys : CLoad(p)
  \/ \E p \in Keys : CFetch(p)
  \/ \E p \in Keys : CExtract(p)
  \/ \E p \in Keys : CSave(p)

SpecConcurrent == InitConcurrent /\ [][NextConcurrent]_vars

\* --------------------------------------------------------- import_profile
\* import_profile up to the first install_tool: the warning and the prompt
\* when the profile is for another platform or arch, "Import cancelled"
\* unless the answer is y; then the loop over the profile's tools, each
\* installed by install_tool, that is by sync_tool on the current platform
ImportProfile(answer) ==
  /\ imp.phase = "idle"
  /\ pc = "idle"
  /\ LET asked == ~imp.profile.match
         i0 == [imp EXCEPT !.warned = asked,
                           !.answer = IF asked THEN answer ELSE "-",
                           !.pre = [state |-> state, pins |-> pins, bin |-> bin,
                                    cache |-> cache]]
     IN IF asked /\ Lower(answer) # "y"
        THEN /\ imp' = [i0 EXCEPT !.phase = "cancelled"]
             /\ UNCHANGED <<pc, call>>
        ELSE IF imp.profile.tools = <<>>
        THEN /\ imp' = [i0 EXCEPT !.phase = "done"]
             /\ UNCHANGED <<pc, call>>
        ELSE /\ imp' = [i0 EXCEPT !.phase = "run", !.idx = 1]
             /\ Enter(imp.profile.tools[1].name, imp.force)
  /\ UNCHANGED <<paths, disp, names, arc, lfs, conc, mvars, verif, manifest, remote, state, cache,
                 bin, tmp, leaked, last, sa, ops>>

\* a plausible slip: the pin of the profile is taken whatever install_tool
\* returned
PinsImported_Regardless(success, tool) == tool.pinned /\ tool.version # NoPin

\* if success and pinned and version
PinsImported(success, tool) == success /\ tool.pinned /\ tool.version # NoPin

\* install_tool returned: pin_version when the install succeeded and the
\* profile pins the tool to a version, then the next tool of the loop or
\* "Profile import complete"
ImportNext ==
  /\ imp.phase = "run"
  /\ pc = "done"
  /\ call.outcome # "raised"
  /\ LET tool == imp.profile.tools[imp.idx]
         success == Succeeded(call)
         i1 == [imp EXCEPT !.results = Append(@, IF success THEN "T" ELSE "F")]
     IN /\ IF PinsImported(success, tool)
           THEN /\ pins' = [pins EXCEPT ![tool.name] = tool.version]
                /\ pinhist' = [pinhist EXCEPT ![tool.name] = tool.version]
           ELSE UNCHANGED <<pins, pinhist>>
        /\ IF imp.idx < Len(imp.profile.tools)
           THEN /\ imp' = [i1 EXCEPT !.idx = @ + 1]
                /\ Enter(imp.profile.tools[imp.idx + 1].name, imp.force)
           ELSE /\ imp' = [i1 EXCEPT !.phase = "done"]
                /\ pc' = "idle"
                /\ call' = NoCall
  /\ UNCHANGED <<paths, disp, names, arc, lfs, conc, verif, manifest, remote, state, cache, bin, tmp,
                 leaked, last, sa, ops, url, backups, clock, mops, snap, mlast>>

\* the OSError of save_state leaves install_tool and import_profile
ImportRaise ==
  /\ imp.phase = "run"
  /\ pc = "done"
  /\ call.outcome = "raised"
  /\ imp' = [imp EXCEPT !.phase = "raised"]
  /\ pc' = "idle"
  /\ call' = NoCall
  /\ UNCHANGED <<paths, disp, names, arc, lfs, conc, mvars, verif, manifest, remote, state, cache,
                 bin, tmp, leaked, last, sa, ops>>

\* the stores left by earlier invocations: a manifest entry declares the
\* digest of release A, published or not, or it is an archive's entry that
\* declares none and whose release holds no matching member; a key was never
\* synced or is installed; a profile file and a force flag
InitImport ==
  /\ manifest \in [Keys -> {ShaOf("A"), NoDigest}]
  /\ remote \in [Keys -> {"down"} \cup Artifacts]
  /\ \A k \in Keys :
       \/ (manifest[k] = ShaOf("A") /\ remote[k] \in {"A", "down"})
       \/ (k \in Unverified(manifest, remote) /\ KindOf(k) # "raw")
  /\ \E inst \in SUBSET (Keys \ Unverified(manifest, remote)) :
       /\ state = [k \in Keys |-> IF k \in inst THEN NewRecord(manifest[k]) ELSE NoRec]
       /\ cache = [k \in Keys |-> IF k \in inst THEN InstalledCache ELSE NoFile]
       /\ bin = [k \in Keys |-> IF k \in inst THEN InstalledBin(k) ELSE NoBin]
  /\ tmp = NoFile
  /\ leaked = FALSE
  /\ pc = "idle"
  /\ call = NoCall
  /\ last = NoLast
  /\ sa = NoRun
  /\ ops = 0
  /\ MgrInit
  /\ url = [k \in Keys |-> AssetUrl(k)]
  /\ verif = NoProbe
  /\ names = NoNames
  /\ arc = NoArc
  /\ lfs = NoLfs
  /\ conc = NoConc
  /\ \E pr \in Profiles, f \in BOOLEAN :
       imp = [NoImp EXCEPT !.profile = pr, !.force = f]
  /\ paths = NoPaths
  /\ disp = NoDisp

NextImport ==
  \/ \E a \in Answers : ImportProfile(a)
  \/ DlOpen
  \/ DlReadChunk
  \/ DlReadFail
  \/ DlVerify
  \/ DlMoveRename
  \/ DlMoveCopyOpen
  \/ DlMoveCopyChunk
  \/ DlMoveCopyFail
  \/ DlMoveCopyDone
  \/ ExtractNoMember
  \/ ExtractCopyOpen
  \/ ExtractCopyChunk
  \/ ExtractCopyFail
  \/ ExtractChmod
  \/ SaveState
  \/ SaveStateFail
  \/ ImportNext
  \/ ImportRaise

SpecImport == InitImport /\ [][NextImport]_vars

\* ------------------------------------------ installs and uninstalls only
\* sync_tool, sync_all and uninstall_tool invocations that run to their end,
\* over a manifest and releases that do not change: every manifest entry
\* declares the digest of release A or none, every release is published
InitInstall ==
  /\ Init
  /\ manifest \in [Keys -> {ShaOf("A"), NoDigest}]
  /\ remote \in [Keys -> Artifacts]

NextInstall ==
  \/ \E k \in Keys \cup {MissingKey}, f \in BOOLEAN : SyncTool(k, f)
  \/ DlOpen
  \/ DlReadChunk
  \/ DlReadFail
  \/ DlVerify
  \/ DlMoveRename
  \/ DlMoveCopyOpen
  \/ DlMoveCopyChunk
  \/ DlMoveCopyFail
  \/ DlMoveCopyDone
  \/ ExtractNoMember
  \/ ExtractCopyOpen
  \/ ExtractCopyChunk
  \/ ExtractCopyFail
  \/ ExtractChmod
  \/ SaveState
  \/ SaveStateFail
  \/ Return
  \/ \E f \in BOOLEAN : SyncAll(f)
  \/ SyncAllNext
  \/ SyncAllRaise
  \/ SyncAllReturn
  \/ \E k \in Keys : UninstallTool(k)

SpecInstall == InitInstall /\ [][NextInstall]_vars

\* ------------------------------------------- the choice of extractor
\* sync_tool names the cache file and hands it to extract_binary
ChooseExtractor ==
  /\ disp.variant = "-"
  /\ disp' = [disp EXCEPT !.variant = extract_binary(CacheFileParts(disp.e))]
  /\ UNCHANGED <<names, arc, lfs, conc, imp, paths, mvars, verif, manifest, remote, state,
                 cache, bin, tmp, leaked, pc, call, last, sa, ops>>

InitDispatch ==
  /\ StoresAtRest
  /\ names = NoNames
  /\ arc = NoArc
  /\ lfs = NoLfs
  /\ conc = NoConc
  /\ imp = NoImp
  /\ paths = NoPaths
  /\ \E e \in DispEntries : disp = [NoDisp EXCEPT !.e = e]

NextDispatch == ChooseExtractor

SpecDispatch == InitDispatch /\ [][NextDispatch]_vars

\* --------------------------------------------------------- install paths
PathStep ==
  /\ paths.n < MaxPathOps
  /\ UNCHANGED <<names, arc, lfs, conc, imp, disp, mvars, verif, manifest, remote, state,
                 cache, bin, tmp, leaked, pc, call, last, sa, ops>>

\* the same sync_tool call, with the same fault, in both runs
PathSyncTool(t, force, fault) ==
  /\ PathStep
  /\ LET a == sync_tool(paths.w, t, force, fault)
         b == sync_tool(paths.twin, t, force, fault)
     IN paths' = [w |-> a.w, twin |-> b.w, pre |-> paths.w,
                  last |-> [op |-> "sync_tool", tool |-> t, force |-> force,
                            res |-> a.res, twin |-> b.res],
                  n |-> paths.n + 1]

\* the same sync_all run in both runs
PathSyncAll(force, faults) ==
  /\ PathStep
  /\ LET a == sync_all(paths.w, 1, force, faults)
         b == sync_all(paths.twin, 1, force, faults)
     IN paths' = [w |-> a.w, twin |-> b.w, pre |-> paths.w,
                  last |-> [op |-> "sync_all", tool |-> "-", force |-> force,
                            res |-> a.res, twin |-> b.res],
                  n |-> paths.n + 1]

\* the same uninstall_tool call in both runs
PathUninstallTool(t) ==
  /\ PathStep
  /\ LET a == uninstall_tool(paths.w, t)
         b == uninstall_tool(paths.twin, t)
     IN paths' = [w |-> a.w, twin |-> b.w, pre |-> paths.w,
                  last |-> [op |-> "uninstall_tool", tool |-> t, force |-> FALSE,
                            res |-> a.res, twin |-> b.res],
                  n |-> paths.n + 1]

\* pin_version or unpin_version in the first run only: the Pin Stores of the
\* two runs are unrelated
PathPin(t, v) ==
  /\ PathStep
  /\ paths' = [paths EXCEPT !.w = pin_version(paths.w, t, v), !.pre = paths.w,
                            !.last = [NoOp EXCEPT !.op = "pin", !.tool = t],
                            !.n = @ + 1]

InitPaths ==
  /\ StoresAtRest
  /\ names = NoNames
  /\ arc = NoArc
  /\ lfs = NoLfs
  /\ conc = NoConc
  /\ imp = NoImp
  /\ disp = NoDisp
  /\ \E man \in PathManifests, p \in PinMaps, q \in PinMaps :
       paths = [NoPaths EXCEPT !.w = World(man, p), !.twin = World(man, q),
                               !.pre = World(man, p)]

NextPaths ==
  \/ \E t \in PathToolSet, force \in BOOLEAN, fault \in Faults : PathSyncTool(t, force, fault)
  \/ \E force \in BOOLEAN, faults \in [1..Len(PathTools) -> Faults] : PathSyncAll(force, faults)
  \/ \E t \in PathToolSet : PathUninstallTool(t)
  \/ \E t \in PathToolSet, v \in {NoPin, "v1"} : PathPin(t, v)

SpecPaths == InitPaths /\ [][NextPaths]_vars

\* ------------------------------------------- entries without a digest
\* the url or the tag of a manifest entry is edited between two invocations:
\* the url now serves release r, and a new tag gives the cache file another
\* name, under which there is no file yet
ChangeEntry(k, r, retag) ==
  /\ Quiet
  /\ remote[k] # r \/ (retag /\ cache[k].ex)
  /\ remote' = [remote EXCEPT ![k] = r]
  /\ cache' = IF retag THEN [cache EXCEPT ![k] = NoFile] ELSE cache
  /\ last' = NoLast
  /\ UNCHANGED <<fvars, mvars, verif, manifest, state, bin, tmp, leaked, pc, call, sa>>

InitNoDigest ==
  /\ Init
  /\ manifest \in [Keys -> {ShaOf("A"), NoDigest}]
  /\ \E k \in Keys : manifest[k] = NoDigest

NextNoDigest ==
  \/ \E k \in Keys \cup {MissingKey}, f \in BOOLEAN : SyncTool(k, f)
  \/ DlOpen
  \/ DlReadChunk
  \/ DlReadFail
  \/ DlVerify
  \/ DlMoveRename
  \/ DlMoveCopyOpen
  \/ DlMoveCopyChunk
  \/ DlMoveCopyFail
  \/ DlMoveCopyDone
  \/ ExtractNoMember
  \/ ExtractCopyOpen
  \/ ExtractCopyChunk
  \/ ExtractCopyFail
  \/ ExtractChmod
  \/ SaveState
  \/ SaveStateFail
  \/ Return
  \/ \E k \in Keys, r \in {"down"} \cup Artifacts, retag \in BOOLEAN : ChangeEntry(k, r, retag)

SpecNoDigest == InitNoDigest /\ [][NextNoDigest]_vars

\* ------------------------------------------ sync_tool calls to their end
\* the steps a sync_tool call takes between its entry and its end
CallStep ==
  \/ DlOpen \/ DlReadChunk \/ DlReadFail \/ DlVerify
  \/ DlMoveRename \/ DlMoveCopyOpen \/ DlMoveCopyChunk \/ DlMoveCopyFail \/ DlMoveCopyDone
  \/ ExtractNoMember \/ ExtractCopyOpen \/ ExtractCopyChunk \/ ExtractCopyFail \/ ExtractChmod
  \/ SaveState \/ SaveStateFail

InitLive ==
  /\ manifest \in [Keys -> {ShaOf("A"), NoDigest}]
  /\ remote \in [Keys -> {Stalled, "down"} \cup Artifacts]
  /\ state = [k \in Keys |-> NoRec]
  /\ cache = [k \in Keys |-> NoFile]
  /\ bin = [k \in Keys |-> NoBin]
  /\ tmp = NoFile
  /\ leaked = FALSE
  /\ pc = "idle"
  /\ call = NoCall
  /\ last = NoLast
  /\ sa = NoRun
  /\ ops = 0
  /\ MgrInit
  /\ url = [k \in Keys |-> AssetUrl(k)]
  /\ verif = NoProbe
  /\ FInit

NextLive ==
  \/ \E k \in Keys \cup {MissingKey}, f \in BOOLEAN : SyncTool(k, f)
  \/ DlOpen
  \/ DlReadChunk
  \/ DlReadFail
  \/ DlVerify
  \/ DlMoveRename
  \/ DlMoveCopyOpen
  \/ DlMoveCopyChunk
  \/ DlMoveCopyFail
  \/ DlMoveCopyDone
  \/ ExtractNoMember
  \/ ExtractCopyOpen
  \/ ExtractCopyChunk
  \/ ExtractCopyFail
  \/ ExtractChmod
  \/ SaveState
  \/ SaveStateFail
  \/ Return

\* the process that runs a call is scheduled, and every blocking step of the
\* call ends: a read returns data, the end of the body, or the timeout
SpecLive == InitLive /\ [][NextLive]_vars /\ WF_vars(CallStep)

\* ================================================================ claims
Done == pc = "done" /\ call.key \in Keys

Failed(c) == c.outcome \notin {"-", "running", "up_to_date", "installed"}

Complete(f) == f.ex /\ f.len = ChunkCount

\* C1: during and after a download_file call, the file at the destination
\* (the cache path) is either the file that was there before the call or a
\* complete body whose sha256 is the expected one (when one is expected):
\* never a partially written body, never a mismatching one.
C1_NoPartialOrMismatchedAtDest ==
  (call.key \in Keys /\ call.net > 0) =>
    LET d == cache[call.key]
    IN \/ d = call.preCache
       \/ /\ Complete(d)
          /\ call.sha # NoDigest => calculate_sha256(d) = call.sha

C3_SecondCallIsUpToDate ==
  (Done /\ ~call.force /\ last.key = call.key) =>
    /\ call.outcome = "up_to_date"
    /\ call.net = 0 /\ ~call.extracted /\ ~call.wrote

\* C3 (amended): the same, when the first of the two calls returned success.
C3_SecondCallAfterSuccessIsUpToDate ==
  (Done /\ ~call.force /\ last.key = call.key /\ last.ok) =>
    /\ call.outcome = "up_to_date"
    /\ call.net = 0 /\ ~call.extracted /\ ~call.wrote
    /\ state = call.lstate

C3_Witness ==
  /\ Done /\ ~call.force /\ last.key = call.key /\ last.ok /\ last.net > 0
  /\ call.outcome = "up_to_date" /\ call.net = 0

\* the cache file a call found was present and its sha256 differed from the
\* digest the manifest entry declares
StaleCacheAtStart ==
  /\ Done
  /\ call.preCache.ex
  /\ call.sha # NoDigest
  /\ calculate_sha256(call.preCache) # call.sha

\* what C4 promises of such a call
RedownloadedAndVerified ==
  /\ call.net > 0
  /\ call.outcome = "installed" =>
       /\ call.fresh
       /\ calculate_sha256(cache[call.key]) = manifest[call.key]
       /\ bin[call.key].body = SrcBody(call.key)

\* C4 (as stated): every sync_tool call that starts with a cache file whose
\* sha256 differs from the manifest's digest re-downloads, and if it succeeds
\* the installed artifact came from content with the manifest's digest.
C4_StaleCacheIsRedownloaded == StaleCacheAtStart => RedownloadedAndVerified

\* C4 (amended): the same for every call that gets past the up-to-date check
\* (force, or no InstallRecord whose digest equals the manifest's).
C4_StaleCacheIsRedownloadedUnlessUpToDate ==
  (StaleCacheAtStart /\ ~(~call.force /\ call.lstate[call.key].ex
                          /\ call.lstate[call.key].sha = call.sha))
    => RedownloadedAndVerified

C4_Witness ==
  /\ StaleCacheAtStart /\ ~call.force /\ call.outcome = "installed"
  /\ call.net = 1

\* the keys whose URL is unreachable
Unreachable == {k \in Keys : remote[k] = "down"}

\* a sync_all run has returned, exactly one key's URL is unreachable and
\* nothing else is wrong: no other failure in the run, no damaged cache file
OneUnreachableRun ==
  /\ sa.phase = "done"
  /\ Cardinality(Unreachable) = 1
  /\ ~sa.fault
  /\ \A k \in Keys : cache[k].ex => Complete(cache[k])

OthersInstalled ==
  \A j \in Keys \ Unreachable :
    sa.results[j] = "T" /\ bin[j].ex /\ state[j].ex

FalseEntries == {k \in Keys : sa.results[k] = "F"}

\* C5 (as stated): in a sync_all run in which exactly one key's URL is
\* unreachable, the other keys are installed and the result map holds exactly
\* one false entry.
C5_ExactlyOneFailure ==
  OneUnreachableRun => (OthersInstalled /\ Cardinality(FalseEntries) = 1)

\* C5 (amended): the other keys are installed, and the result map holds exactly
\* one false entry, the unreachable key's, when that key's sync has to download
\* (it is neither up to date nor served from a usable cache file), and no false
\* entry otherwise.
C5_OneFailureWhenDownloadNeeded ==
  OneUnreachableRun =>
    /\ OthersInstalled
    /\ FalseEntries = Unreachable \cap sa.tried

C5_Witness ==
  /\ OneUnreachableRun
  /\ FalseEntries = Unreachable
  /\ \E j \in Keys \ Unreachable : j \in sa.tried /\ sa.results[j] = "T"

\* C6: a sync_tool call that fails in download or extraction leaves the State
\* Store (this key's record and every other key's) and the binary at the
\* install path as they were before the call.
C6_FailedSyncLeavesStateUntouched ==
  (Done /\ Failed(call)) =>
    /\ state = call.lstate
    /\ bin[call.key] = call.preBin

\* C7: whatever the point at which a sync is killed, the State Store on disk
\* holds no record for a key whose install path holds no binary or a
\* partially written one; files survive a crash as they are, so this is the
\* property of every state a sync passes through.
C7_RecordNeverPointsAtPartialBinary ==
  \A k \in Keys : state[k].ex => (bin[k].ex /\ bin[k].len = bin[k].tot)

C9_ForceAlwaysDownloads ==
  (call.key \in Keys /\ call.force) =>
    /\ pc \in {"dl_open", "dl_read", "dl_move", "dl_copy", "extract", "copy", "save", "done"}
    /\ pc # "dl_open" => call.net = 1
    /\ (pc \in {"extract", "copy", "save"} \/ call.extracted) => call.fresh

C9_Witness ==
  /\ Done /\ call.force /\ call.outcome = "installed"
  /\ call.lstate[call.key].ex /\ call.lstate[call.key].sha = manifest[call.key]
  /\ Complete(call.preCache)
  /\ ~CacheStale(call.preCache, manifest[call.key])
  /\ call.net = 1

\* C10: a file whose leading bytes hold the Git LFS pointer signature is
\* never reported as valid by verify_binary nor as working by
\* verify_installation, whether or not its executable bit is set.
C10_PointerNeverAccepted ==
  (verif.by # "-" /\ verif.file.ex /\ MarkerInHeader(verif.file))
    => ~Accepted(verif.res)

\* C11: restore_backup of the file that the most recent create_backup call
\* wrote, after any sync, uninstall, pin and unpin operations, leaves the State
\* Store and the Pin Store equal to what they were when create_backup ran.
C11_RestoreReproducesBackup ==
  [][\A f \in Seconds :
       (RestoreBackup(f) /\ snap.ex /\ snap.file = f) =>
         (state' = snap.state /\ pins' = snap.pins)]_vars

C11_Witness ==
  /\ mlast.op = "restore" /\ snap.ex /\ mlast.file = snap.file
  /\ mlast.diff
  /\ state = snap.state /\ pins = snap.pins
  /\ \E k \in Keys : state[k].ex

\* a step of create_backup, restore_backup, pin_version or unpin_version
StoreOp ==
  \/ CreateBackup
  \/ \E f \in Seconds : RestoreBackup(f)
  \/ \E t \in Tools, v \in Versions : PinVersion(t, v)
  \/ \E t \in Tools : UnpinVersion(t)

\* C12: create_backup, restore_backup, pin_version and unpin_version make no
\* network I/O and leave every installed binary, every cache file and every
\* temporary file as they are.
C12_StoreOpsLeaveBinariesAndCache ==
  [][StoreOp =>
       /\ bin' = bin /\ cache' = cache /\ tmp' = tmp /\ leaked' = leaked
       /\ call' = call /\ remote' = remote]_vars

C12_Witness ==
  /\ mlast.op = "restore" /\ mlast.diff
  /\ \E k \in Keys : bin[k].ex /\ cache[k].ex /\ ~state[k].ex

\* C13: a sync without force that returns success after restore_backup leaves
\* the binary at the install path of every key that has an InstallRecord:
\* the key of a sync_tool call, every key after a sync_all run.
C13_SyncAfterRestoreBringsBinariesBack ==
  mlast.op = "restore" =>
    /\ (Done /\ ~call.force /\ sa.phase = "idle" /\ Succeeded(call)
          /\ state[call.key].ex) => bin[call.key].ex
    /\ (sa.phase = "done" /\ ~sa.force /\ (\A k \in Keys : sa.results[k] = "T")) =>
         \A k \in Keys : state[k].ex => bin[k].ex

\* C14: every create_backup call writes a file that did not exist, and leaves
\* every backup file written by an earlier call as it is.
C14_BackupFilesAreWriteOnce ==
  [][CreateBackup =>
       /\ ~backups[clock].ex
       /\ \A f \in Seconds : backups[f].ex => backups'[f] = backups[f]]_vars

\* C15 (as stated): when download_file fails with a network or protocol
\* failure, the call fails and no artifact is at the destination path
\* afterwards.
C15_NoArtifactAfterTransportFailure ==
  (Done /\ call.outcome \in {"unreachable", "transport"}) =>
    /\ ~Succeeded(call)
    /\ ~cache[call.key].ex

\* C15 (amended): when download_file fails with a network or protocol
\* failure, the call fails and the destination path holds what it held before
\* the call: nothing if there was no file, the earlier file otherwise.
C15_DestinationUntouchedByTransportFailure ==
  (Done /\ call.outcome \in {"unreachable", "transport"}) =>
    /\ ~Succeeded(call)
    /\ cache[call.key] = call.preCache

C15_Witness ==
  /\ Done /\ call.outcome = "transport" /\ call.net = 1
  /\ Complete(call.preCache)
  /\ cache[call.key] = call.preCache

\* C16: a sync_tool call on a key that has no manifest entry returns failure
\* and touches nothing: no network I/O, no change to the State Store, to the
\* Cache Store or to the install directory.
C16_AbsentKeyHasNoEffect ==
  [][(pc = "idle" /\ pc' = "done" /\ call'.key = MissingKey) =>
       /\ call'.outcome = "no_entry"
       /\ ~Succeeded(call')
       /\ call'.net = 0
       /\ state' = state /\ cache' = cache /\ bin' = bin /\ tmp' = tmp]_vars

C16_Witness ==
  /\ pc = "done" /\ call.key = MissingKey /\ call.outcome = "no_entry"
  /\ \E k \in Keys : state[k].ex /\ cache[k].ex /\ bin[k].ex

\* C17: a sync_all run never raises and never stops early: whatever fails for
\* a key, it ends by returning a map that holds one boolean for every key of
\* the manifest.
C17_SyncAllAlwaysReturnsFullMap ==
  sa.phase \in {"done", "raised"} =>
    /\ sa.phase = "done"
    /\ \A k \in Keys : sa.results[k] \in {"T", "F"}

\* C18: a tool is pinned exactly when the most recent pin_version or
\* unpin_version call on it was pin_version(t, v), and then its pinned version
\* is v, whatever was pinned before; unpin_version of a tool that is not
\* pinned leaves the Pin Store as it is.
C18_PinnedIffLastCallPinned ==
  /\ [](\A t \in Tools :
          pinhist[t] # "?" =>
            /\ is_pinned(t) <=> pinhist[t] \in Versions
            /\ pinhist[t] \in Versions => get_pinned_version(t) = pinhist[t])
  /\ [][\A t \in Tools : (UnpinVersion(t) /\ ~is_pinned(t)) => pins' = pins]_vars

C18_Witness ==
  /\ mlast.op = "pin" /\ mlast.diff
  /\ \E t \in Tools : pinhist[t] \in Versions /\ get_pinned_version(t) = pinhist[t]

\* a step of a sync_tool call or of a sync_all run
SyncStep ==
  \/ pc # "idle" \/ pc' # "idle"
  \/ sa.phase # "idle" \/ sa'.phase # "idle"

\* C19: no step of a sync_tool call or of a sync_all run, successful or not,
\* changes the Pin Store.
C19_SyncLeavesPinStore == [][SyncStep => pins' = pins]_vars

C19_Witness ==
  /\ Done /\ call.outcome = "installed"
  /\ \E t \in Tools : is_pinned(t)

\* C20: clean_cache with keep_current leaves the cached archive of every key
\* that has an InstallRecord and deletes the cached archive of every key that
\* has none.
C20_CleanKeepsExactlyTheInstalled ==
  [][CleanCache(TRUE) =>
       \A k \in Keys :
         /\ state[k].ex => cache'[k] = cache[k]
         /\ ~state[k].ex => ~cache'[k].ex]_vars

\* the exits of a sync_tool call that a failed download takes
DownloadFailed(c) == c.outcome \in {"unreachable", "transport", "digest", "move"}

\* C29: sync_tool hands a cache file to extract_binary only when it is
\* verified: for an entry that declares a digest, from the start of the
\* extraction to the return of the call the cache file's sha256 is the
\* declared digest, because this call downloaded and verified it or because
\* this call found it in the cache and re-verified it.
C29_ExtractsOnlyVerifiedCache ==
  (/\ pc \in {"extract", "copy", "save"} \/ (Done /\ call.extracted)
   /\ call.sha # NoDigest) =>
    /\ call.sha = manifest[call.key]
    /\ cache[call.key].ex
    /\ calculate_sha256(cache[call.key]) = call.sha
    /\ \/ call.fresh
       \/ call.preCache = cache[call.key] /\ ~CacheStale(call.preCache, call.sha)

C29_Witness ==
  /\ pc = "extract" /\ call.sha # NoDigest
  /\ ~call.fresh /\ call.net = 0
  /\ Complete(cache[call.key])

\* C30: a sync_tool call makes at most one download attempt, and a failed
\* attempt ends the call with failure: nothing is fetched a second time,
\* nothing is extracted and no record is written.
C30_AtMostOneDownloadAttempt ==
  /\ call.net <= 1
  /\ (Done /\ DownloadFailed(call)) =>
       /\ call.net = 1
       /\ ~Succeeded(call)
       /\ ~call.fresh /\ ~call.extracted /\ ~call.wrote
       /\ state = call.lstate

C30_Witness ==
  /\ Done /\ call.outcome = "digest" /\ call.net = 1
  /\ Complete(call.preCache)
  /\ CacheStale(call.preCache, call.sha)

\* a sync_tool call without force has returned on a key that was installed
\* and whose manifest digest was edited since: the record it found holds
\* another digest than the entry, and the cache file it found is the complete
\* artifact the record was written for
ResyncAfterDigestChange ==
  /\ Done /\ ~call.force /\ call.key \in Keys
  /\ call.lstate[call.key].ex
  /\ call.lstate[call.key].sha # call.sha
  /\ Complete(call.preCache)
  /\ call.lstate[call.key].sha # NoDigest =>
       calculate_sha256(call.preCache) = call.lstate[call.key].sha

C25_WitnessDownload ==
  /\ ResyncAfterDigestChange
  /\ call.sha # NoDigest
  /\ call.outcome = "digest" /\ call.net = 1
  /\ cache[call.key] = call.preCache

\* C24: verify_installation reports a tool as working only when the four
\* steps pass in order: the file exists, its executable bit is set, it is not
\* a Git LFS pointer (signature in its leading bytes), and its version probe
\* exits with 0 in time; a file that fails one of the first three steps is
\* reported as not working, with the step that failed first.
C24_WorkingOnlyIfFourStepsPass ==
  verif.by = "verify_installation" =>
    /\ verif.res = "working" =>
         verif.file.ex /\ verif.file.x /\ ~MarkerInHeader(verif.file)
    /\ ~verif.file.ex => verif.res = "not_found"
    /\ (verif.file.ex /\ ~verif.file.x) => verif.res = "not_executable"
    /\ (verif.file.ex /\ verif.file.x /\ MarkerInHeader(verif.file)) =>
         verif.res = "lfs_pointer"

\* no sync_tool call, sync_all run or tool manager operation is under way
AtRest == pc = "idle" /\ sa.phase = "idle"

C21_CacheFilenamesDoNotAlias ==
  (names.fa # "-" /\ NameTuple(names.a) # NameTuple(names.b)) =>
    names.fa # names.fb

\* C23: on a tar or zip archive extract_binary fails when no member matches
\* the pattern and leaves the destination as it was, and when one or several
\* members match it installs the first of them in the order of the listing.
C23_FirstMatchIsInstalled ==
  arc.res # "-" =>
    LET i == FirstMatch(arc.kind, arc.listing, arc.pattern)
    IN /\ i = 0 => (arc.res = "False" /\ arc.dest = arc.pre)
       /\ i # 0 => (arc.res = "True" /\ arc.dest.ex /\ arc.dest.from = i)

\* the values of a list that start with no supported target
Unrelated(values) == SelectSeq(values, LAMBDA v : ~StartsWithTarget(v))

\* C28: configure_lfs(target) is safe to rerun: a second run with the same
\* target leaves the configuration the first run left; after every run
\* lfs.fetchinclude is exactly target/**, lfs.fetchexclude holds exactly one
\* pattern for each other supported target and none for the target itself, and
\* the lfs.fetchexclude values that start with no supported target are the
\* ones that were there before the script ran.
C28_ConfigureLfsIsIdempotent ==
  lfs.runs > 0 =>
    /\ (lfs.runs = 2 /\ lfs.same) => lfs.cfg = lfs.one
    /\ lfs.cfg.include = <<TargetPattern(lfs.target)>>
    /\ \A t \in Targets :
         Len(SelectSeq(lfs.cfg.exclude, LAMBDA v : v = TargetPattern(t)))
           = (IF t = lfs.target THEN 0 ELSE 1)
    /\ Unrelated(lfs.cfg.exclude) = Unrelated(lfs.pre.exclude)

\* both concurrent calls have returned success
BothSucceeded == \A p \in Keys : conc.run[p].pc = "done" /\ conc.run[p].res = "T"

\* C22: when the sync_tool calls for two different keys run one after the
\* other and both return success, the State Store holds the record of both;
\* a final State Store that lacks one of them (a lost update) is reached only
\* by calls that overlap, with no lock between them (C22_Witness is such a
\* state).
C22_SequentialCallsKeepBothRecords ==
  (BothSucceeded /\ ~conc.overlap) =>
    \A k \in Keys : state[k] = NewRecord(manifest[k])

C22_Witness ==
  /\ BothSucceeded /\ conc.overlap
  /\ \E k \in Keys : ~state[k].ex /\ bin[k].ex /\ bin[k].x
  /\ \E k \in Keys : state[k].ex

\* the sequential case of C22: both calls wrote, one after the other
C22_WitnessSequential ==
  /\ BothSucceeded /\ ~conc.overlap
  /\ \A k \in Keys : conc.run[k].force /\ state[k].ex
  /\ \E k \in Keys : conc.run[k].lstate = NoState

\* the profile's tools that install_tool has returned for
Imported == 1..Len(imp.results)

\* C26: import_profile prints its warning exactly when the profile is for
\* another platform or arch, and then goes on only when the answer is y;
\* when it does not go on, the State Store, the Pin Store, the installed
\* binaries and the cache are as the call found them; and the import changes
\* the pin of a tool only to the version of a profile entry that is marked
\* pinned and whose install succeeded.
C26_ImportWarnsAndPinsOnlyInstalled ==
  imp.phase # "idle" =>
    /\ imp.warned <=> ~imp.profile.match
    /\ (imp.warned /\ imp.phase # "cancelled") => imp.answer \in {"y", "Y"}
    /\ imp.phase = "cancelled" =>
         /\ state = imp.pre.state /\ pins = imp.pre.pins
         /\ bin = imp.pre.bin /\ cache = imp.pre.cache
         /\ imp.results = <<>> /\ call = NoCall
    /\ \A t \in Tools :
         pins[t] # imp.pre.pins[t] =>
           \E i \in Imported :
             /\ imp.profile.tools[i].name = t
             /\ imp.results[i] = "T"
             /\ imp.profile.tools[i].pinned
             /\ imp.profile.tools[i].version = pins[t]

C26_Witness ==
  /\ imp.phase = "done" /\ imp.warned /\ imp.answer = "y"
  /\ \E i \in Imported :
       /\ imp.results[i] = "T" /\ imp.profile.tools[i].pinned
       /\ pins[imp.profile.tools[i].name] = "v1"
  /\ \E i \in Imported :
       /\ imp.results[i] = "F" /\ imp.profile.tools[i].pinned
       /\ imp.profile.tools[i].version = "v1"
       /\ imp.profile.tools[i].name \in Keys
       /\ ~is_pinned(imp.profile.tools[i].name)

\* the other case of C26: the user did not confirm
C26_WitnessCancelled ==
  /\ imp.phase = "cancelled" /\ imp.warned /\ imp.answer = "yes"
  /\ imp.profile.tools # <<>>
  /\ \E k \in Keys : state[k].ex


\* C39: download_file leaks no temporary file: whenever it is not running,
\* whichever way it returned (success, sha256 mismatch, transport failure,
\* other exception), the temporary file it created has been moved to the
\* destination or deleted.
C39_DownloadLeavesNoTemporaryFile ==
  /\ ~leaked
  /\ pc \notin {"dl_read", "dl_move", "dl_copy"} => ~tmp.ex

\* the positions of the listing that match binary_path and are regular files
MatchingFiles == {i \in Matching(arc.kind, arc.listing, arc.pattern) : ~arc.listing[i].dir}

\* C38: on a tar or zip archive in which at least one regular file matches
\* the pattern, extract_binary succeeds and the file it installs is a regular
\* file that matches, also when a directory that matches is listed earlier.
C38_MatchingRegularFileIsInstalled ==
  (arc.res # "-" /\ MatchingFiles # {}) =>
    (arc.res = "True" /\ arc.dest.ex /\ arc.dest.from \in MatchingFiles)

\* the positions of the wildcards of a pattern
Stars(pattern) == {i \in 1..Len(pattern) : pattern[i] = "*"}

\* the literal segments of a pattern: the non-empty stretches between two
\* neighbouring wildcards or ends of the pattern
Segments(pattern) ==
  LET ends == Stars(pattern) \cup {0, Len(pattern) + 1}
  IN {SubSeq(pattern, a + 1, b - 1) :
        <<a, b>> \in {ab \in ends \X ends :
                        /\ ab[1] + 1 < ab[2]
                        /\ \A i \in Stars(pattern) : ~(ab[1] < i /\ i < ab[2])}}

\* the documented matching rule
DocumentedMatch(path, pattern) ==
  IF Stars(pattern) = {} THEN EndsWith(path, pattern)
  ELSE IF Cardinality(Stars(pattern)) = 1
  THEN LET i == CHOOSE j \in Stars(pattern) : TRUE
       IN /\ StartsWith(path, SubSeq(pattern, 1, i - 1))
          /\ EndsWith(path, SubSeq(pattern, i + 1, Len(pattern)))
  ELSE \A seg \in Segments(pattern) : Contains(seg, path)

\* C32: for every listed path and every pattern, _path_matches(path, pattern)
\* is the documented rule: without a wildcard the path ends with the pattern,
\* with one wildcard it starts with the prefix and ends with the suffix, with
\* more every non-empty literal segment occurs in the path, in any order; so
\* the member extract_binary stops at is the first the documented rule accepts.
C32_PathMatchesIsDocumentedMatch ==
  /\ \A i \in 1..Len(arc.listing) :
       _path_matches(ListedName(arc.kind, arc.listing[i]), arc.pattern)
         = DocumentedMatch(ListedName(arc.kind, arc.listing[i]), arc.pattern)
  /\ arc.res = "True" =>
       /\ DocumentedMatch(ListedName(arc.kind, arc.listing[arc.dest.from]), arc.pattern)
       /\ \A j \in 1..(arc.dest.from - 1) :
            ~DocumentedMatch(ListedName(arc.kind, arc.listing[j]), arc.pattern)

\* a pattern with two wildcards whose segments occur in the path in the other
\* order selected the second member of the listing
C32_Witness ==
  /\ arc.res = "True"
  /\ arc.pattern = <<"f", "*", "*", "d">>
  /\ arc.dest.from = 2
  /\ arc.listing[2].name = <<"d", "/", "f">>

\* a pattern with one wildcard: prefix and suffix overlap in the path "f"
C32_WitnessOneStar ==
  /\ arc.res = "True"
  /\ arc.pattern = <<"f", "*", "f">>
  /\ arc.listing[arc.dest.from].name = <<"f">>

\* the extractor the URL's extension calls for
UrlVariant(u) ==
  IF \E ext \in {<<".tar", ".gz">>, <<".tar", ".bz2">>, <<".tar", ".xz">>} : EndsWith(u, ext)
  THEN "tar"
  ELSE IF EndsWith(u, <<".zip">>) THEN "zip"
  ELSE "raw"

\* C33: the extractor sync_tool applies to the cached artifact is the one of
\* the URL's extension (tar for .tar.gz, .tar.bz2, .tar.xz; zip for .zip; a
\* raw copy otherwise), whatever tool name, tag, platform and arch contain.
C33_ExtractorFollowsUrlExtension ==
  disp.variant # "-" => disp.variant = UrlVariant(disp.e.url)

\* the file at the install path of a tool
BinaryOf(w, t) == w.files[binary_name(w.man, t)]

\* C35: a sync_tool call, successful or failed, leaves the record and the
\* installed binary of every other installed key as they were, and after sync_all every
\* key that was synced with success has its record and, at its install path,
\* a binary made from its own artifact.
C35_SyncLeavesOtherKeys ==
  /\ paths.last.op = "sync_tool" =>
       \A u \in PathToolSet \ {paths.last.tool} :
         /\ paths.w.recs[u] = paths.pre.recs[u]
         /\ paths.pre.recs[u] => BinaryOf(paths.w, u) = BinaryOf(paths.pre, u)
  /\ paths.last.op = "sync_all" =>
       \A i \in 1..Len(PathTools) :
         paths.last.res[i] = "True" =>
           /\ paths.w.recs[PathTools[i]]
           /\ BinaryOf(paths.w, PathTools[i]).ex
           /\ BinaryOf(paths.w, PathTools[i]).of = PathTools[i]

\* C36: after uninstall_tool on a key that sync_tool installed, the key has
\* no record, no file is left at the path sync_tool installed its binary to,
\* and the records and the binaries of the other installed keys are as they were.
C36_UninstallRemovesRecordAndBinary ==
  (/\ paths.last.op = "uninstall_tool"
   /\ paths.pre.recs[paths.last.tool]
   /\ BinaryOf(paths.pre, paths.last.tool) = PathFile(paths.last.tool, TRUE)) =>
    /\ ~paths.w.recs[paths.last.tool]
    /\ ~BinaryOf(paths.w, paths.last.tool).ex
    /\ \A u \in PathToolSet \ {paths.last.tool} :
         /\ paths.w.recs[u] = paths.pre.recs[u]
         /\ paths.pre.recs[u] => BinaryOf(paths.w, u) = BinaryOf(paths.pre, u)

\* C34: pinning is advisory: in two runs that differ in the Pin Store only
\* and are given the same calls, every sync_tool, sync_all and uninstall_tool
\* call returns the same result and leaves the same binaries, cache files and
\* records; a pin neither blocks nor redirects an install.
C34_PinsDoNotAffectSync ==
  /\ paths.w.files = paths.twin.files
  /\ paths.w.cached = paths.twin.cached
  /\ paths.w.recs = paths.twin.recs
  /\ paths.last.res = paths.last.twin

\* a tool that is pinned in one run and not in the other was installed by
\* the same sync_tool call in both
C34_Witness ==
  /\ paths.last.op = "sync_tool"
  /\ paths.last.res = "True"
  /\ ~paths.pre.recs[paths.last.tool]
  /\ paths.w.recs[paths.last.tool]
  /\ paths.w.pins[paths.last.tool] # NoPin
  /\ paths.twin.pins[paths.last.tool] = NoPin

\* C37 (as stated): for an entry without digest the first sync_tool call
\* installs, and every later call without force reports up-to-date without a
\* download, also after the entry's url or tag changed.
C37_NoDigestInstallsThenUpToDate ==
  (Done /\ call.sha = NoDigest /\ ~call.force) =>
    IF call.lstate[call.key].ex
    THEN call.outcome = "up_to_date" /\ call.net = 0
    ELSE call.outcome = "installed"

\* C37 (amended): for an entry without digest no sync_tool call fails the
\* sha256 check, and a call that installs has installed what the URL served
\* or what the cache held; once the key has a record without digest, every
\* call without force reports up-to-date with no download, no extraction and
\* no state write, also after the entry's url or tag changed; a call on a key
\* without record installs or fails in download, extraction or the state write.
C37_NoDigestNeverVerifiedThenUpToDate ==
  (Done /\ call.sha = NoDigest) =>
    /\ call.outcome # "digest"
    /\ (~call.force /\ call.lstate[call.key] = NewRecord(NoDigest)) =>
         /\ call.outcome = "up_to_date"
         /\ call.net = 0 /\ ~call.extracted /\ ~call.wrote
         /\ state = call.lstate /\ bin[call.key] = call.preBin
    /\ (~call.force /\ call.lstate[call.key] # NewRecord(NoDigest)) =>
         call.outcome \in {"installed", "unreachable", "transport", "move",
                           "extract", "copy", "raised"}
    /\ call.outcome = "installed" =>
         /\ state[call.key] = NewRecord(NoDigest)
         /\ bin[call.key].body = SrcBody(call.key)

\* the key has a record without digest, its url serves another release and
\* its tag changed (no file under the new cache name): up-to-date
C37_Witness ==
  /\ Done /\ call.sha = NoDigest /\ ~call.force
  /\ call.outcome = "up_to_date"
  /\ ~cache[call.key].ex
  /\ remote[call.key] \in Artifacts
  /\ bin[call.key].ex /\ bin[call.key].body # remote[call.key]
  /\ bin[call.key].body # MemberOf(remote[call.key])

\* an artifact that matches no digest was installed by the first call
C37_WitnessUnverified ==
  /\ Done /\ call.sha = NoDigest /\ ~call.force
  /\ call.outcome = "installed" /\ call.net = 1
  /\ cache[call.key].body = "B"

\* a sync_tool call has been entered and has not ended
Running == pc \notin {"idle", "done"}

\* the ends of a call that are a terminal state of the per-key state machine:
\* UP_TO_DATE and INSTALLED return True, FAILED returns False
TerminalOutcomes ==
  {"up_to_date", "installed", "no_entry", "unreachable", "transport", "digest",
   "move", "extract", "copy"}

\* C31: every sync_tool call that was entered ends, also when the server
\* stalls, and it ends in a terminal state of the per-key state machine:
\* UP_TO_DATE or INSTALLED with result True, FAILED with result False.
C31_EveryCallEndsInTerminalState ==
  Running ~> (pc = "done" /\ call.outcome \in TerminalOutcomes)

\* the part of C31 that holds: every call that was entered ends, by a return
\* or by an exception
CallsEnd == Running ~> (pc = "done")

====
